---- MODULE Spec2Model ----
(***************************************************************************)
(* Pricing resolution and fallback engine of the AWS price calculator:     *)
(* the connectivity monitor (utils/offline_mode.py), the fallback          *)
(* dispatcher (fallback_to_static / with_fallback) and the instance-price  *)
(* resolution it wraps (services/pricing_service.py over the static        *)
(* catalog of static/aws_resources.py).                                    *)
(*                                                                         *)
(* Python values are written as strings: None, True and False are "None",  *)
(* "True" and "False".  Prices are integers in units of 0.0001 USD.        *)
(* Every call runs to completion, so one action is one whole call; only    *)
(* RaceSpec interleaves the statements of concurrent monitor calls.  The   *)
(* variables op, ret, attempts, call and lastForce record what the calls   *)
(* did; the program never reads them.                                      *)
(*                                                                         *)
(* Further parts: the cost models and aws_services.get_ec2_price           *)
(* (aws_services.py), the enumerations of the instance types, and the      *)
(* resource list, totals and export of the calculator page (app.py).       *)
(***************************************************************************)
EXTENDS Integers, Sequences, FiniteSets, TLC

VARIABLES
    _aws_online,     \* offline_mode._aws_online: "None" | "True" | "False"
    _force_mode,     \* offline_mode._force_mode: "None" | "True" | "False"
    _pricing_client, \* pricing_service._pricing_client: "None" | "client"
    nonlocal_offline_func, \* the wrapper's nonlocal offline_func: "None" until resolved
    op,              \* the operation that ran last
    ret,             \* its outcome: returned value or raised error
    attempts,        \* the responses of the reachability requests it issued
    call,            \* what the dispatcher did in it (NoCall for a monitor call)
    lastForce,       \* the last of force_online_mode / force_offline_mode /
                     \* reset_connection_state that was called
    retry_limit,     \* the max_retries the last call's probe ran with
    price_tables,    \* aws_services' module-level price dicts
    estimate,        \* the last call, when it was an estimate_price call
    earlier,         \* an estimate_price call that ran before it
    lookup,          \* the last call, when it was a static catalog lookup
    offline_func_of, \* the nonlocal offline_func of the other wrappers of
                     \* pricing_service, by function name
    ec2_quote,       \* the last aws_services.get_ec2_price call
    listing,         \* the last enumeration of aws_services or
                     \* aws_static_resources
    resources,       \* app.py's st.session_state.resources
    rendered,        \* what the last run of the app's script put on the page
    threads          \* the threads that call the monitor concurrently:
                     \* next statement, retry_count and result of each

\* the state of the monitor and the dispatcher, and what their calls did
monitor_vars == <<_aws_online, _force_mode, _pricing_client,
                  nonlocal_offline_func, op, ret, attempts, call, lastForce,
                  retry_limit>>

\* the state the cost models can reach, and what the pricing calls did
pricing_vars == <<price_tables, estimate, earlier, lookup>>

\* the calls of aws_services.py that contact the pricing API
services_vars == <<ec2_quote, listing>>

\* the user's session in app.py
session_vars == <<resources, rendered>>

\* everything outside the monitor, the get_ec2_price dispatcher and the
\* cost models
other_vars == <<offline_func_of, ec2_quote, listing, resources, rendered,
                threads>>

vars == <<_aws_online, _force_mode, _pricing_client, nonlocal_offline_func,
          op, ret, attempts, call, lastForce, retry_limit,
          price_tables, estimate, earlier, lookup,
          offline_func_of, ec2_quote, listing, resources, rendered, threads>>

(***************************************************************************)
(* Bounds and program constants.                                           *)
(***************************************************************************)
\* largest max_retries a caller passes to check_aws_connection
MaxRetries == 2
\* the default of check_aws_connection's max_retries parameter
DEFAULT_MAX_RETRIES == 2
\* WINDOWS_PRICE_PREMIUM = 0.058 USD, in units of 0.0001 USD
WINDOWS_PRICE_PREMIUM == 580

Tri == {"None", "True", "False"}

\* What one requests.get(AWS_PRICING_ENDPOINT, timeout) can do: answer with
\* status 200, answer with another status, or raise.  "ConnectionError"
\* stands for the two errors the loop catches in one except clause
\* (requests.ConnectionError, requests.Timeout), "TooManyRedirects" for the
\* RequestException subclasses that are neither.
Responses == {"200", "503", "ConnectionError", "TooManyRedirects"}

\* The responses the endpoint would give to n successive requests.
Network(n) == [1..n -> Responses]

NoRec == [instance_type |-> "", region |-> "", operating_system |-> "",
          price_per_hour |-> 0, unit |-> "", currency |-> "", source |-> ""]

\* The element of a one-element set.  TheOne({e(x) : x \in {v}}) is
\* LET x == v IN e(x) with v evaluated once.
TheOne(S) == CHOOSE x \in S : TRUE

Return(v) == [kind |-> "return", val |-> v, rec |-> NoRec]
ReturnRec(r) == [kind |-> "return", val |-> "record", rec |-> r]
Raise(e) == [kind |-> "raise", val |-> e, rec |-> NoRec]
NoRet == [kind |-> "none", val |-> "None", rec |-> NoRec]

(***************************************************************************)
(* Connectivity monitor.  Each operator maps the monitor's state           *)
(* (force, online) and the call's inputs to the call's outcome:            *)
(* [ret, online, force, attempts].                                         *)
(***************************************************************************)

\* retry_loop testing `if response:` instead of the status code: any
\* answer of the endpoint counts as a success
RECURSIVE retry_loop_any_status(_, _, _, _)
retry_loop_any_status(retry_count, max_retries, net, online) ==
    IF retry_count <= max_retries
    THEN LET response == net[retry_count + 1] IN
         IF response \in {"200", "503"}
         THEN [ret |-> Return("True"), online |-> "True",
               attempts |-> SubSeq(net, 1, retry_count + 1)]
         ELSE IF response = "ConnectionError"
         THEN retry_loop_any_status(retry_count + 1, max_retries, net, online)
         ELSE [ret |-> Raise(response), online |-> online,
               attempts |-> SubSeq(net, 1, retry_count + 1)]
    ELSE [ret |-> Return("False"), online |-> "False",
          attempts |-> SubSeq(net, 1, retry_count)]

\* retry_loop without the `return True`: a successful attempt sets the
\* flag and the loop goes on to the next attempt
RECURSIVE retry_loop_no_return(_, _, _, _)
retry_loop_no_return(retry_count, max_retries, net, online) ==
    IF retry_count <= max_retries
    THEN LET response == net[retry_count + 1] IN
         IF response = "200"
         THEN retry_loop_no_return(retry_count + 1, max_retries, net, "True")
         ELSE IF response \in {"503", "ConnectionError"}
         THEN retry_loop_no_return(retry_count + 1, max_retries, net, online)
         ELSE [ret |-> Raise(response), online |-> online,
               attempts |-> SubSeq(net, 1, retry_count + 1)]
    ELSE [ret |-> Return("False"), online |-> "False",
          attempts |-> SubSeq(net, 1, retry_count)]

\* the retry loop of check_aws_connection, entered with retry_count
RECURSIVE retry_loop(_, _, _, _)
retry_loop(retry_count, max_retries, net, online) ==
    IF retry_count <= max_retries
    THEN LET response == net[retry_count + 1] IN
         IF response = "200"
         THEN [ret |-> Return("True"), online |-> "True",
               attempts |-> SubSeq(net, 1, retry_count + 1)]
         ELSE IF response \in {"503", "ConnectionError"}
         THEN retry_loop(retry_count + 1, max_retries, net, online)
         ELSE [ret |-> Raise(response), online |-> online,
               attempts |-> SubSeq(net, 1, retry_count + 1)]
    ELSE [ret |-> Return("False"), online |-> "False",
          attempts |-> SubSeq(net, 1, retry_count)]

\* check_aws_connection without `global _aws_online`: the result is
\* returned and the cached flag keeps its value
check_aws_connection_uncached(force, online, max_retries, net) ==
    IF force # "None"
    THEN [ret |-> Return(force), online |-> online, force |-> force,
          attempts |-> <<>>]
    ELSE LET r == retry_loop(0, max_retries, net, online) IN
         [ret |-> r.ret, online |-> online, force |-> force,
          attempts |-> r.attempts]

\* check_aws_connection without the test of _force_mode: it always probes
check_aws_connection_no_override(force, online, max_retries, net) ==
    LET r == retry_loop(0, max_retries, net, online) IN
    [ret |-> r.ret, online |-> r.online, force |-> force,
     attempts |-> r.attempts]

check_aws_connection(force, online, max_retries, net) ==
    IF force # "None"
    THEN [ret |-> Return(force), online |-> force, force |-> force,
          attempts |-> <<>>]
    ELSE LET r == retry_loop(0, max_retries, net, online) IN
         [ret |-> r.ret, online |-> r.online, force |-> force,
          attempts |-> r.attempts]

is_aws_online(force, online, net) ==
    IF force # "None"
    THEN [ret |-> Return(force), online |-> online, force |-> force,
          attempts |-> <<>>]
    ELSE IF online = "None"
    THEN check_aws_connection(force, online, DEFAULT_MAX_RETRIES, net)
    ELSE [ret |-> Return(online), online |-> online, force |-> force,
          attempts |-> <<>>]

\* force_online_mode setting the override and not the cached flag
force_online_mode_override_only(force, online) ==
    [ret |-> Return("None"), online |-> online, force |-> "True",
     attempts |-> <<>>]

force_online_mode(force, online) ==
    [ret |-> Return("None"), online |-> "True", force |-> "True",
     attempts |-> <<>>]

\* force_offline_mode without its `global` declaration: the two
\* assignments bind locals and the monitor keeps its state
force_offline_mode_local(force, online) ==
    [ret |-> Return("None"), online |-> online, force |-> force,
     attempts |-> <<>>]

force_offline_mode(force, online) ==
    [ret |-> Return("None"), online |-> "False", force |-> "False",
     attempts |-> <<>>]

\* reset_connection_state clearing the cached flag and not the override
reset_connection_state_flag_only(force, online) ==
    [ret |-> Return("None"), online |-> "None", force |-> force,
     attempts |-> <<>>]

reset_connection_state(force, online) ==
    [ret |-> Return("None"), online |-> "None", force |-> "None",
     attempts |-> <<>>]

(***************************************************************************)
(* Static price catalog (static/aws_resources.py).                         *)
(***************************************************************************)
AWS_REGIONS ==
    {"us-east-1", "us-east-2", "us-west-1", "us-west-2", "af-south-1",
     "ap-east-1", "ap-south-1", "ap-northeast-1", "ap-northeast-2",
     "ap-northeast-3", "ap-southeast-1", "ap-southeast-2", "ca-central-1",
     "eu-central-1", "eu-west-1", "eu-west-2", "eu-west-3", "eu-south-1",
     "eu-north-1", "me-south-1", "sa-east-1"}

\* EC2_BASE_PRICES: instance type -> region or "default" -> USD per hour,
\* in units of 0.0001 USD
EC2_BASE_PRICES ==
    "t2.nano" :> ("us-east-1" :> 58 @@ "us-east-2" :> 52 @@
           "us-west-1" :> 69 @@ "us-west-2" :> 59 @@ "eu-west-1" :> 63 @@
           "ap-northeast-1" :> 74 @@ "default" :> 65)
    @@ "t2.micro" :> ("us-east-1" :> 116 @@ "us-east-2" :> 104 @@
           "us-west-1" :> 139 @@ "us-west-2" :> 117 @@ "eu-west-1" :> 127 @@
           "ap-northeast-1" :> 146 @@ "default" :> 130)
    @@ "t2.small" :> ("us-east-1" :> 230 @@ "us-east-2" :> 207 @@
           "us-west-1" :> 275 @@ "us-west-2" :> 233 @@ "eu-west-1" :> 250 @@
           "ap-northeast-1" :> 292 @@ "default" :> 260)
    @@ "t2.medium" :> ("us-east-1" :> 464 @@ "us-east-2" :> 418 @@
           "us-west-1" :> 555 @@ "us-west-2" :> 468 @@ "eu-west-1" :> 504 @@
           "ap-northeast-1" :> 584 @@ "default" :> 520)
    @@ "t2.large" :> ("us-east-1" :> 928 @@ "us-east-2" :> 835 @@
           "us-west-1" :> 1109 @@ "us-west-2" :> 936 @@ "eu-west-1" :> 1008
           @@ "ap-northeast-1" :> 1168 @@ "default" :> 1040)
    @@ "t2.xlarge" :> ("us-east-1" :> 1856 @@ "us-east-2" :> 1670 @@
           "us-west-1" :> 2219 @@ "us-west-2" :> 1872 @@ "eu-west-1" :> 2016
           @@ "ap-northeast-1" :> 2336 @@ "default" :> 2080)
    @@ "t2.2xlarge" :> ("us-east-1" :> 3712 @@ "us-east-2" :> 3341 @@
           "us-west-1" :> 4438 @@ "us-west-2" :> 3744 @@ "eu-west-1" :> 4032
           @@ "ap-northeast-1" :> 4672 @@ "default" :> 4160)
    @@ "t3.nano" :> ("us-east-1" :> 52 @@ "us-east-2" :> 47 @@
           "us-west-1" :> 62 @@ "us-west-2" :> 52 @@ "eu-west-1" :> 57 @@
           "ap-northeast-1" :> 66 @@ "default" :> 59)
    @@ "t3.micro" :> ("us-east-1" :> 104 @@ "us-east-2" :> 94 @@
           "us-west-1" :> 125 @@ "us-west-2" :> 104 @@ "eu-west-1" :> 114 @@
           "ap-northeast-1" :> 132 @@ "default" :> 117)
    @@ "t3.small" :> ("us-east-1" :> 208 @@ "us-east-2" :> 187 @@
           "us-west-1" :> 250 @@ "us-west-2" :> 208 @@ "eu-west-1" :> 227 @@
           "ap-northeast-1" :> 264 @@ "default" :> 234)
    @@ "m5.large" :> ("us-east-1" :> 960 @@ "us-east-2" :> 860 @@
           "us-west-1" :> 1130 @@ "us-west-2" :> 960 @@ "eu-west-1" :> 1050
           @@ "ap-northeast-1" :> 1210 @@ "default" :> 1070)
    @@ "m5.xlarge" :> ("us-east-1" :> 1920 @@ "us-east-2" :> 1730 @@
           "us-west-1" :> 2260 @@ "us-west-2" :> 1920 @@ "eu-west-1" :> 2100
           @@ "ap-northeast-1" :> 2420 @@ "default" :> 2150)
    @@ "m5.2xlarge" :> ("us-east-1" :> 3840 @@ "us-east-2" :> 3460 @@
           "us-west-1" :> 4520 @@ "us-west-2" :> 3840 @@ "eu-west-1" :> 4190
           @@ "ap-northeast-1" :> 4840 @@ "default" :> 4300)
    @@ "c5.large" :> ("us-east-1" :> 850 @@ "us-east-2" :> 770 @@
           "us-west-1" :> 1010 @@ "us-west-2" :> 850 @@ "eu-west-1" :> 930 @@
           "ap-northeast-1" :> 1080 @@ "default" :> 950)
    @@ "c5.xlarge" :> ("us-east-1" :> 1700 @@ "us-east-2" :> 1540 @@
           "us-west-1" :> 2020 @@ "us-west-2" :> 1700 @@ "eu-west-1" :> 1860
           @@ "ap-northeast-1" :> 2160 @@ "default" :> 1900)
    @@ "c5.2xlarge" :> ("us-east-1" :> 3400 @@ "us-east-2" :> 3080 @@
           "us-west-1" :> 4040 @@ "us-west-2" :> 3400 @@ "eu-west-1" :> 3720
           @@ "ap-northeast-1" :> 4320 @@ "default" :> 3800)
    @@ "r5.large" :> ("us-east-1" :> 1260 @@ "us-east-2" :> 1130 @@
           "us-west-1" :> 1490 @@ "us-west-2" :> 1260 @@ "eu-west-1" :> 1390
           @@ "ap-northeast-1" :> 1600 @@ "default" :> 1410)
    @@ "r5.xlarge" :> ("us-east-1" :> 2520 @@ "us-east-2" :> 2260 @@
           "us-west-1" :> 2980 @@ "us-west-2" :> 2520 @@ "eu-west-1" :> 2780
           @@ "ap-northeast-1" :> 3200 @@ "default" :> 2820)
    @@ "r5.2xlarge" :> ("us-east-1" :> 5040 @@ "us-east-2" :> 4520 @@
           "us-west-1" :> 5960 @@ "us-west-2" :> 5040 @@ "eu-west-1" :> 5560
           @@ "ap-northeast-1" :> 6400 @@ "default" :> 5640)

\* EBS_PRICES: volume type -> region or "default" -> USD per GB-month, in
\* units of 0.0001 USD
EBS_PRICES ==
    "gp2" :> ("us-east-1" :> 1000 @@ "us-east-2" :> 1000 @@
           "us-west-1" :> 1100 @@ "us-west-2" :> 1000 @@ "eu-west-1" :> 1100
           @@ "ap-northeast-1" :> 1200 @@ "default" :> 1100)
    @@ "gp3" :> ("us-east-1" :> 800 @@ "us-east-2" :> 800 @@
           "us-west-1" :> 900 @@ "us-west-2" :> 800 @@ "eu-west-1" :> 900 @@
           "ap-northeast-1" :> 900 @@ "default" :> 900)
    @@ "io1" :> ("us-east-1" :> 1250 @@ "us-east-2" :> 1250 @@
           "us-west-1" :> 1380 @@ "us-west-2" :> 1250 @@ "eu-west-1" :> 1380
           @@ "ap-northeast-1" :> 1420 @@ "default" :> 1350)
    @@ "st1" :> ("us-east-1" :> 450 @@ "us-east-2" :> 450 @@
           "us-west-1" :> 500 @@ "us-west-2" :> 450 @@ "eu-west-1" :> 500 @@
           "ap-northeast-1" :> 550 @@ "default" :> 500)
    @@ "sc1" :> ("us-east-1" :> 250 @@ "us-east-2" :> 250 @@
           "us-west-1" :> 270 @@ "us-west-2" :> 250 @@ "eu-west-1" :> 270 @@
           "ap-northeast-1" :> 300 @@ "default" :> 270)
    @@ "standard" :> ("us-east-1" :> 500 @@ "us-east-2" :> 500 @@
           "us-west-1" :> 550 @@ "us-west-2" :> 500 @@ "eu-west-1" :> 550 @@
           "ap-northeast-1" :> 600 @@ "default" :> 550)

\* the keys of INSTANCE_SPECS; seven of them have no entry in EC2_BASE_PRICES
INSTANCE_SPECS ==
    {"t2.nano", "t2.micro", "t2.small", "t2.medium", "t2.large",
     "t2.xlarge", "t2.2xlarge", "t3.nano", "t3.micro", "t3.small",
     "t3.medium", "t3.large", "t3.xlarge", "t3.2xlarge", "m5.large",
     "m5.xlarge", "m5.2xlarge", "m5.4xlarge", "c5.large", "c5.xlarge",
     "c5.2xlarge", "c5.4xlarge", "r5.large", "r5.xlarge", "r5.2xlarge",
     "r5.4xlarge"}

EmptyDict == [k \in {} |-> 0]

\* dict.get(key, default)
Get(dict, key, default) == IF key \in DOMAIN dict THEN dict[key] ELSE default

\* str.lower() on the operating-system names
Lower(s) ==
    CASE s = "Windows" -> "windows"
      [] s = "WINDOWS" -> "windows"
      [] s = "Linux" -> "linux"
      [] OTHER -> s

is_valid_region(region) == region \in AWS_REGIONS

is_valid_instance_type(instance_type) == instance_type \in INSTANCE_SPECS

\* get_ec2_base_price ignoring the region: the type's "default" entry
\* is the price of every region
get_ec2_base_price_default_only(instance_type, region, operating_system) ==
    IF ~is_valid_instance_type(instance_type)
    THEN [kind |-> "raise", val |-> "ValueError", price |-> 0]
    ELSE LET instance_prices == Get(EC2_BASE_PRICES, instance_type, EmptyDict)
             base_price == Get(instance_prices, "default", 0)
         IN  [kind |-> "return", val |-> "float",
              price |-> IF Lower(operating_system) = "windows"
                        THEN base_price + WINDOWS_PRICE_PREMIUM
                        ELSE base_price]

\* returns [kind |-> "return", price] or [kind |-> "raise", val]
\* the premium for the exact name "Windows" only
get_ec2_base_price_exact_name(instance_type, region, operating_system) ==
    IF ~is_valid_instance_type(instance_type)
    THEN [kind |-> "raise", val |-> "ValueError", price |-> 0]
    ELSE LET instance_prices == Get(EC2_BASE_PRICES, instance_type, EmptyDict)
             base_price == Get(instance_prices, region,
                               Get(instance_prices, "default", 0))
         IN  [kind |-> "return", val |-> "float",
              price |-> IF operating_system = "Windows"
                        THEN base_price + WINDOWS_PRICE_PREMIUM
                        ELSE base_price]

get_ec2_base_price(instance_type, region, operating_system) ==
    IF ~is_valid_instance_type(instance_type)
    THEN [kind |-> "raise", val |-> "ValueError", price |-> 0]
    ELSE LET instance_prices == Get(EC2_BASE_PRICES, instance_type, EmptyDict)
             base_price == Get(instance_prices, region,
                               Get(instance_prices, "default", 0))
         IN  [kind |-> "return", val |-> "float",
              price |-> IF Lower(operating_system) = "windows"
                        THEN base_price + WINDOWS_PRICE_PREMIUM
                        ELSE base_price]

\* the region lookup with one default for every volume type, gp2's
get_ebs_price_global_default(volume_type, region) ==
    IF volume_type \notin DOMAIN EBS_PRICES
    THEN [kind |-> "raise", val |-> "ValueError", price |-> 0]
    ELSE LET volume_prices == Get(EBS_PRICES, volume_type, EmptyDict)
         IN  [kind |-> "return", val |-> "float",
              price |-> Get(volume_prices, region,
                            EBS_PRICES["gp2"]["default"])]

\* returns [kind |-> "return", price] or [kind |-> "raise", val]
get_ebs_price(volume_type, region) ==
    IF volume_type \notin DOMAIN EBS_PRICES
    THEN [kind |-> "raise", val |-> "ValueError", price |-> 0]
    ELSE LET volume_prices == Get(EBS_PRICES, volume_type, EmptyDict)
         IN  [kind |-> "return", val |-> "float",
              price |-> Get(volume_prices, region,
                            Get(volume_prices, "default", 0))]

(***************************************************************************)
(* Instance-price resolution (services/pricing_service.py).                *)
(***************************************************************************)
InstanceTypes == {"t3.micro", "z9.huge"}
Regions == {"us-east-1", "xx-fake-1"}
OperatingSystems == {"Linux", "Windows"}

\* the arguments (instance_type, region, operating_system) of a resolution
Args == [instance_type : InstanceTypes, region : Regions,
         operating_system : OperatingSystems]

\* the argument (instance_type) of a specification lookup
SpecsArgs == [instance_type : InstanceTypes]

\* the regions that have an entry in EC2_BASE_PRICES
TabulatedRegions ==
    UNION {DOMAIN EC2_BASE_PRICES[t] : t \in DOMAIN EC2_BASE_PRICES}
        \ {"default"}

\* every instance type of the catalog and one that is not in it; every
\* region with an entry, a region with none and a name that is no region
CatalogArgs == [instance_type : INSTANCE_SPECS \cup {"z9.huge"},
                region : TabulatedRegions \cup {"sa-east-1", "xx-fake-1"},
                operating_system : OperatingSystems]

\* What the pricing API does in one call: whether boto3.client("pricing")
\* can be created, and what get_products answers: an error, an empty
\* PriceList, a product that is not JSON, a product without OnDemand terms,
\* or a product with a price.
LiveEnvs == [client : {"ok", "error"},
             response : {"ClientError", "empty", "malformed", "no_terms", "ok"}]

\* the USD price per unit and the unit of the product the API answers with
LIVE_PRICE == 111
LIVE_UNIT == "Hrs"

\* the region check left out: a price for any region name
get_ec2_price_static_any_region(a) ==
    IF ~is_valid_instance_type(a.instance_type) THEN Raise("ValueError")
    ELSE LET price == get_ec2_base_price(a.instance_type, a.region,
                                         a.operating_system)
         IN  IF price.kind = "raise" THEN Raise(price.val)
             ELSE ReturnRec([instance_type |-> a.instance_type,
                             region |-> a.region,
                             operating_system |-> a.operating_system,
                             price_per_hour |-> price.price,
                             unit |-> "Hrs",
                             currency |-> "USD",
                             source |-> "static_data"])

\* get_ec2_price_static(instance_type, region, operating_system)
get_ec2_price_static(a) ==
    IF ~is_valid_instance_type(a.instance_type) THEN Raise("ValueError")
    ELSE IF ~is_valid_region(a.region) THEN Raise("ValueError")
    ELSE LET price == get_ec2_base_price(a.instance_type, a.region,
                                         a.operating_system)
         IN  IF price.kind = "raise" THEN Raise(price.val)
             ELSE ReturnRec([instance_type |-> a.instance_type,
                             region |-> a.region,
                             operating_system |-> a.operating_system,
                             price_per_hour |-> price.price,
                             unit |-> "Hrs",
                             currency |-> "USD",
                             source |-> "static_data"])

\* get_pricing_client(): [ret: the client or "None" or a raised error,
\*                        client, online, force, attempts]
get_pricing_client(client, force, online, net, env) ==
    IF client = "None"
    THEN TheOne({
           IF m.ret.kind = "raise"
           THEN [ret |-> m.ret, client |-> client] @@ m
           ELSE IF m.ret.val = "True"
           THEN IF env.client = "ok"
                THEN [ret |-> Return("client"), client |-> "client"] @@ m
                ELSE [ret |-> Return("None"), client |-> client] @@ m
           ELSE [ret |-> Return(client), client |-> client] @@ m
           : m \in {is_aws_online(force, online, net)}})
    ELSE [ret |-> Return(client), client |-> client, online |-> online,
          force |-> force, attempts |-> <<>>]

\* the body of the live get_ec2_price, below the decorator:
\* [ret, client, online, force, attempts].  The record it returns has no
\* "source" key, written source |-> "".
get_ec2_price(a, client, force, online, net, env) ==
    TheOne({
      [ret |->
          IF c.ret.kind = "raise" THEN c.ret
          ELSE IF c.ret.val = "None" THEN Raise("ConnectionError")
          ELSE IF env.response = "ClientError" THEN Raise("ClientError")
          ELSE IF env.response = "empty" THEN Raise("ValueError")
          ELSE IF env.response = "malformed" THEN Raise("JSONDecodeError")
          ELSE IF env.response = "no_terms" THEN Raise("StopIteration")
          ELSE ReturnRec([instance_type |-> a.instance_type,
                          region |-> a.region,
                          operating_system |-> a.operating_system,
                          price_per_hour |-> LIVE_PRICE,
                          unit |-> LIVE_UNIT,
                          currency |-> "USD",
                          source |-> ""])] @@ c
      : c \in {get_pricing_client(client, force, online, net, env)}})

(***************************************************************************)
(* Instance specifications (static/aws_resources.py and                    *)
(* services/pricing_service.py).                                           *)
(***************************************************************************)
\* The values of INSTANCE_SPECS: of each type its vcpus, its memory_gb in
\* units of 0.5 GB and its network.  Every entry has storage_gb 0,
\* architecture ["x86_64"] and current_generation True.
instance_specs ==
    "t2.nano" :> [vcpus |-> 1, memory_gb |-> 1, network |-> "Low to Moderate"] @@
    "t2.micro" :> [vcpus |-> 1, memory_gb |-> 2, network |-> "Low to Moderate"] @@
    "t2.small" :> [vcpus |-> 1, memory_gb |-> 4, network |-> "Low to Moderate"] @@
    "t2.medium" :> [vcpus |-> 2, memory_gb |-> 8, network |-> "Low to Moderate"] @@
    "t2.large" :> [vcpus |-> 2, memory_gb |-> 16, network |-> "Low to Moderate"] @@
    "t2.xlarge" :> [vcpus |-> 4, memory_gb |-> 32, network |-> "Moderate"] @@
    "t2.2xlarge" :> [vcpus |-> 8, memory_gb |-> 64, network |-> "Moderate"] @@
    "t3.nano" :> [vcpus |-> 2, memory_gb |-> 1, network |-> "Up to 5 Gigabit"] @@
    "t3.micro" :> [vcpus |-> 2, memory_gb |-> 2, network |-> "Up to 5 Gigabit"] @@
    "t3.small" :> [vcpus |-> 2, memory_gb |-> 4, network |-> "Up to 5 Gigabit"] @@
    "t3.medium" :> [vcpus |-> 2, memory_gb |-> 8, network |-> "Up to 5 Gigabit"] @@
    "t3.large" :> [vcpus |-> 2, memory_gb |-> 16, network |-> "Up to 5 Gigabit"] @@
    "t3.xlarge" :> [vcpus |-> 4, memory_gb |-> 32, network |-> "Up to 5 Gigabit"] @@
    "t3.2xlarge" :> [vcpus |-> 8, memory_gb |-> 64, network |-> "Up to 5 Gigabit"] @@
    "m5.large" :> [vcpus |-> 2, memory_gb |-> 16, network |-> "Up to 10 Gigabit"] @@
    "m5.xlarge" :> [vcpus |-> 4, memory_gb |-> 32, network |-> "Up to 10 Gigabit"] @@
    "m5.2xlarge" :> [vcpus |-> 8, memory_gb |-> 64, network |-> "Up to 10 Gigabit"] @@
    "m5.4xlarge" :> [vcpus |-> 16, memory_gb |-> 128, network |-> "Up to 10 Gigabit"] @@
    "c5.large" :> [vcpus |-> 2, memory_gb |-> 8, network |-> "Up to 10 Gigabit"] @@
    "c5.xlarge" :> [vcpus |-> 4, memory_gb |-> 16, network |-> "Up to 10 Gigabit"] @@
    "c5.2xlarge" :> [vcpus |-> 8, memory_gb |-> 32, network |-> "Up to 10 Gigabit"] @@
    "c5.4xlarge" :> [vcpus |-> 16, memory_gb |-> 64, network |-> "Up to 10 Gigabit"] @@
    "r5.large" :> [vcpus |-> 2, memory_gb |-> 32, network |-> "Up to 10 Gigabit"] @@
    "r5.xlarge" :> [vcpus |-> 4, memory_gb |-> 64, network |-> "Up to 10 Gigabit"] @@
    "r5.2xlarge" :> [vcpus |-> 8, memory_gb |-> 128, network |-> "Up to 10 Gigabit"] @@
    "r5.4xlarge" :> [vcpus |-> 16, memory_gb |-> 256, network |-> "Up to 10 Gigabit"]

\* get_instance_type_specs(instance_type): INSTANCE_SPECS.get(instance_type)
\* (None is the empty dict here: both are false in `if not specs`)
get_instance_type_specs(instance_type) ==
    Get(instance_specs, instance_type, EmptyDict)

\* get_instance_specs_static(instance_type), a = [instance_type]
get_instance_specs_static(a) ==
    IF ~is_valid_instance_type(a.instance_type) THEN Raise("ValueError")
    ELSE LET specs == get_instance_type_specs(a.instance_type)
         IN  IF DOMAIN specs = {} THEN Raise("ValueError")
             ELSE ReturnRec([instance_type |-> a.instance_type,
                             vcpu |-> specs.vcpus,
                             memory_gb |-> specs.memory_gb,
                             storage |-> 0,
                             network_performance |-> specs.network,
                             architecture |-> <<"x86_64">>,
                             is_current_generation |-> TRUE,
                             source |-> "static_data"])

\* What the EC2 API does in one get_instance_specs call: boto3 raises, the
\* API refuses the request, or describe_instance_types answers with no
\* instance type or with one.
SpecsEnvs == {"NoCredentialsError", "ClientError", "empty", "ok"}

\* the body of the live get_instance_specs, below the decorator; the
\* record has no "source" key
get_instance_specs(a, env) ==
    IF env \in {"NoCredentialsError", "ClientError"} THEN Raise(env)
    ELSE IF env = "empty" THEN Raise("ValueError")
    ELSE ReturnRec([instance_type |-> a.instance_type,
                    vcpu |-> 2, memory_gb |-> 2, storage |-> 0,
                    network_performance |-> "Up to 5 Gigabit",
                    architecture |-> <<"x86_64">>,
                    is_current_generation |-> TRUE])

(***************************************************************************)
(* Enumeration of the instance types.  Python orders two str by the code   *)
(* points of their first differing characters, a proper prefix first;      *)
(* sorted() is stable.                                                     *)
(***************************************************************************)
\* ord(c) of the characters of the names
ord ==
    "-" :> 45 @@ "." :> 46 @@ "0" :> 48 @@ "1" :> 49 @@ "2" :> 50
    @@ "3" :> 51 @@ "4" :> 52 @@ "5" :> 53 @@ "6" :> 54 @@ "7" :> 55
    @@ "8" :> 56 @@ "9" :> 57 @@ "a" :> 97 @@ "b" :> 98 @@ "c" :> 99
    @@ "d" :> 100 @@ "e" :> 101 @@ "f" :> 102 @@ "g" :> 103 @@ "h" :> 104
    @@ "i" :> 105 @@ "j" :> 106 @@ "k" :> 107 @@ "l" :> 108 @@ "m" :> 109
    @@ "n" :> 110 @@ "o" :> 111 @@ "p" :> 112 @@ "q" :> 113 @@ "r" :> 114
    @@ "s" :> 115 @@ "t" :> 116 @@ "u" :> 117 @@ "v" :> 118 @@ "w" :> 119
    @@ "x" :> 120 @@ "y" :> 121 @@ "z" :> 122

\* a < b for two str that are equal before their character i
RECURSIVE str_lt_from(_, _, _)
str_lt_from(a, b, i) ==
    IF i > Len(b) THEN FALSE
    ELSE IF i > Len(a) THEN TRUE
    ELSE IF SubSeq(a, i, i) = SubSeq(b, i, i) THEN str_lt_from(a, b, i + 1)
    ELSE ord[SubSeq(a, i, i)] < ord[SubSeq(b, i, i)]

str_lt(a, b) == str_lt_from(a, b, 1)

\* the place of entry i in the sorted list: behind the entries that are
\* less and the equal ones before it
place(list, i) ==
    1 + Cardinality({j \in DOMAIN list :
                        \/ str_lt(list[j], list[i])
                        \/ list[j] = list[i] /\ j < i})

\* sorted(list) that leaves the list in the order it has
unsorted(list) == list

\* sorted(list)
sorted(list) ==
    TheOne({[k \in 1..Len(list) |->
                list[CHOOSE i \in DOMAIN list : places[i] = k]]
            : places \in {[i \in DOMAIN list |-> place(list, i)]}})

\* list(a_set): the members in an order of the set's own, here from the
\* greatest down
list_of(a_set) ==
    [k \in 1..Cardinality(a_set) |->
        CHOOSE x \in a_set :
            Cardinality({y \in a_set : str_lt(x, y)}) = k - 1]

\* sum(lists, []): the lists one after the other
RECURSIVE Flatten(_)
Flatten(seqs) == IF seqs = <<>> THEN <<>> ELSE Head(seqs) \o Flatten(Tail(seqs))

\* a returned list
ReturnList(list) == ReturnRec([list |-> list])

\* list(INSTANCE_SPECS.keys()): the keys in the order of the dict
get_all_instance_types ==
    <<"t2.nano", "t2.micro", "t2.small", "t2.medium", "t2.large",
      "t2.xlarge", "t2.2xlarge", "t3.nano", "t3.micro", "t3.small",
      "t3.medium", "t3.large", "t3.xlarge", "t3.2xlarge", "m5.large",
      "m5.xlarge", "m5.2xlarge", "m5.4xlarge", "c5.large", "c5.xlarge",
      "c5.2xlarge", "c5.4xlarge", "r5.large", "r5.xlarge", "r5.2xlarge",
      "r5.4xlarge">>

\* the argument of an enumeration
ListArgs == [region : {"None", "us-east-1"}]

\* sorted(get_all_instance_types()), the same list in every call
sorted_instance_types == sorted(get_all_instance_types)

get_available_instance_types_static(a) == ReturnList(sorted_instance_types)

\* What the EC2 API does in one get_available_instance_types call: boto3
\* raises, or describe_instance_types answers page by page, each type of
\* the region on one page.
ListEnvs ==
    [answer : {"NoCredentialsError", "ClientError"}, pages : {<<>>}]
    \cup [answer : {"pages"},
          pages : {<< <<>> >>,
                   << <<"t3.micro", "m5.large", "a1.medium", "c5.large">> >>,
                   << <<"t3.micro", "t2.micro">>, <<"m5.2xlarge">>,
                      <<"m5.12xlarge", "c5.large">> >>}]

\* the body of the live get_available_instance_types, below the decorator
get_available_instance_types(a, env) ==
    IF env.answer # "pages" THEN Raise(env.answer)
    ELSE ReturnList(sorted(Flatten(env.pages)))

(***************************************************************************)
(* Fallback dispatcher (utils/offline_mode.py).  The live and the static   *)
(* operation are functions: online_func[<<args, st>>] is the outcome       *)
(* [ret, st, attempts] of the live operation called with args in state     *)
(* st = [force, online, client]; offline_func[args] is the outcome of the  *)
(* static operation, which reads no state.                                 *)
(***************************************************************************)
NoArgs == [instance_type |-> "", region |-> "", operating_system |-> ""]

\* every error of the model is an instance of Exception
Exceptions == {"ConnectionError", "TooManyRedirects", "ClientError",
               "ValueError", "JSONDecodeError", "StopIteration",
               "NoCredentialsError", "EndpointConnectionError",
               "IndexError"}

\* `if not is_aws_online():`, the test inverted
online_branch_inverted(answer) == answer # Return("True")

\* the test left out: the live operation is tried whatever the answer
online_branch_always(answer) == TRUE

\* `if is_aws_online():` takes the live branch on the answer
online_branch(answer) == answer = Return("True")

\* `except ConnectionError`: only the transport failure is caught
except_ConnectionError(e) == e = "ConnectionError"

\* `except Exception` catches e
except_Exception(e) == e \in Exceptions

\* the static call inside a try of its own that answers None on an error
return_offline_default(offline_func, args) ==
    IF offline_func[args].kind = "raise" THEN Return("None")
    ELSE offline_func[args]

\* `return offline_func(*args, **kwargs)`: the static operation's outcome,
\* returned or raised, is the dispatcher's
return_offline(offline_func, args) == offline_func[args]

\* [ret, st, attempts, answer, live_args, static_args]: answer is what
\* is_aws_online() gave; live_args and static_args are the arguments of each
\* invocation of the two operations, in order.
fallback_to_static(st, net, online_func, offline_func, args) ==
    TheOne({
      IF on.ret.kind = "raise"
      THEN [ret |-> on.ret,
            st |-> [force |-> on.force, online |-> on.online,
                    client |-> st.client],
            attempts |-> on.attempts, answer |-> on.ret,
            live_args |-> <<>>, static_args |-> <<>>]
      ELSE IF online_branch(on.ret)
      THEN TheOne({
             IF l.ret.kind = "raise" /\ except_Exception(l.ret.val)
             THEN [ret |-> return_offline(offline_func, args), st |-> l.st,
                   attempts |-> on.attempts \o l.attempts,
                   answer |-> on.ret, live_args |-> <<args>>,
                   static_args |-> <<args>>]
             ELSE [ret |-> l.ret, st |-> l.st,
                   attempts |-> on.attempts \o l.attempts,
                   answer |-> on.ret, live_args |-> <<args>>,
                   static_args |-> <<>>]
             : l \in {online_func[<<args, [force |-> on.force,
                                           online |-> on.online,
                                           client |-> st.client]>>]}})
      ELSE [ret |-> return_offline(offline_func, args),
            st |-> [force |-> on.force, online |-> on.online,
                    client |-> st.client],
            attempts |-> on.attempts, answer |-> on.ret,
            live_args |-> <<>>, static_args |-> <<args>>]
      : on \in {is_aws_online(st.force, st.online, net)}})

\* the functions of services/pricing_service.py that getattr can find
ModuleFunctions ==
    {"get_pricing_client", "get_ec2_price", "get_ec2_price_static",
     "get_ebs_volume_price", "get_ebs_volume_price_static",
     "get_available_instance_types", "get_available_instance_types_static",
     "get_instance_specs", "get_instance_specs_static"}

\* the static operations by name
StaticFunction(name) ==
    CASE name = "get_ec2_price_static" ->
           [a \in Args \cup CatalogArgs |-> get_ec2_price_static(a)]
      [] name = "get_instance_specs_static" ->
           [a \in SpecsArgs |-> get_instance_specs_static(a)]
      [] name = "get_available_instance_types_static" ->
           [a \in ListArgs |-> get_available_instance_types_static(a)]

\* the wrapper that with_fallback puts around the function func_name, whose
\* closure cell holds cell: the outcome of fallback_to_static and the cell
wrapper(func_name, cell, st, net, online_func, args) ==
    LET name == IF cell = "None"
                THEN IF func_name \o "_static" \in ModuleFunctions
                     THEN func_name \o "_static"
                     ELSE "None"
                ELSE cell
    IN  IF name = "None"
        THEN [ret |-> Raise("ValueError"), st |-> st, attempts |-> <<>>,
              answer |-> NoRet, live_args |-> <<>>, static_args |-> <<>>,
              cell |-> cell]
        ELSE fallback_to_static(st, net, online_func,
                                StaticFunction(name), args) @@ [cell |-> name]

(***************************************************************************)
(* Per-service cost models and their facade estimate_price                 *)
(* (aws_services.py).  Floats are exact fixed-point numbers here: amounts  *)
(* are integers in units of 0.000001 USD, those of estimate_lambda in      *)
(* units of 0.0000000001 USD, so an equality of the model holds in the     *)
(* code up to the rounding of float arithmetic.  params is the caller's    *)
(* dict, a function from its keys; tables holds the module's price dicts.  *)
(* A cost model can reach both, so its outcome is [quote, params, tables]: *)
(* the dict it returns and the two as the call leaves them.                *)
(***************************************************************************)
\* EC2_PRICES: instance type -> region -> USD per hour
EC2_PRICES ==
    "t3.micro" :> ("us-east-1" :> 10400 @@ "us-west-2" :> 10400 @@
           "eu-west-1" :> 11400 @@ "sa-east-1" :> 20800)
    @@ "t3.small" :> ("us-east-1" :> 20800 @@ "us-west-2" :> 20800 @@
           "eu-west-1" :> 22800 @@ "sa-east-1" :> 41600)
    @@ "t3.medium" :> ("us-east-1" :> 41600 @@ "us-west-2" :> 41600 @@
           "eu-west-1" :> 45600 @@ "sa-east-1" :> 83200)
    @@ "m5.large" :> ("us-east-1" :> 96000 @@ "us-west-2" :> 96000 @@
           "eu-west-1" :> 106000 @@ "sa-east-1" :> 192000)
    @@ "c5.large" :> ("us-east-1" :> 85000 @@ "us-west-2" :> 85000 @@
           "eu-west-1" :> 94000 @@ "sa-east-1" :> 170000)

\* S3_PRICES: storage class -> region -> USD per GB-month
S3_PRICES ==
    "Standard" :> ("us-east-1" :> 23000 @@ "us-west-2" :> 23000 @@
           "eu-west-1" :> 24000 @@ "sa-east-1" :> 40500)
    @@ "Intelligent-Tiering" :> ("us-east-1" :> 25000 @@
           "us-west-2" :> 25000 @@ "eu-west-1" :> 26000 @@
           "sa-east-1" :> 43500)
    @@ "Standard-IA" :> ("us-east-1" :> 12500 @@ "us-west-2" :> 12500 @@
           "eu-west-1" :> 13100 @@ "sa-east-1" :> 21600)
    @@ "One Zone-IA" :> ("us-east-1" :> 10000 @@ "us-west-2" :> 10000 @@
           "eu-west-1" :> 10400 @@ "sa-east-1" :> 17200)
    @@ "Glacier" :> ("us-east-1" :> 4000 @@ "us-west-2" :> 4000 @@
           "eu-west-1" :> 4200 @@ "sa-east-1" :> 6900)
    @@ "Glacier Deep Archive" :> ("us-east-1" :> 990 @@
           "us-west-2" :> 990 @@ "eu-west-1" :> 1040 @@ "sa-east-1" :> 1710)

\* LAMBDA_PRICES: "requests" (per million) and "duration" (per GB-second),
\* by region, in units of 0.0000000001 USD
LAMBDA_PRICES ==
    "requests" :> ("us-east-1" :> 2000000000 @@
           "us-west-2" :> 2000000000 @@ "eu-west-1" :> 2000000000 @@
           "sa-east-1" :> 2000000000)
    @@ "duration" :> ("us-east-1" :> 166667 @@ "us-west-2" :> 166667 @@
           "eu-west-1" :> 166667 @@ "sa-east-1" :> 166667)

\* FARGATE_PRICES: "vcpu" and "memory" (per hour), by region
FARGATE_PRICES ==
    "vcpu" :> ("us-east-1" :> 40480 @@ "us-west-2" :> 40480 @@
           "eu-west-1" :> 44520 @@ "sa-east-1" :> 48560)
    @@ "memory" :> ("us-east-1" :> 4445 @@ "us-west-2" :> 4445 @@
           "eu-west-1" :> 4889 @@ "sa-east-1" :> 5334)

\* the price dicts at module level, as the import leaves them
PriceTables == [EC2_PRICES |-> EC2_PRICES, S3_PRICES |-> S3_PRICES,
                LAMBDA_PRICES |-> LAMBDA_PRICES,
                FARGATE_PRICES |-> FARGATE_PRICES]

\* WINDOWS_MULTIPLIER = 1.3, in tenths
WINDOWS_MULTIPLIER == 13
\* the default of the EC2 price lookup, 0.0416
EC2_DEFAULT_PRICE == 41600
\* the default of the S3 price lookup, 0.023
S3_DEFAULT_PRICE == 23000

\* the outcome of a cost model that leaves params and tables as they were
Quote(quote, params, tables) ==
    [quote |-> quote, params |-> params, tables |-> tables]

\* estimate_ec2 with both lookups defaulting to 0
estimate_ec2_zero_default(params, tables) ==
    LET instance_type == Get(params, "instance_type", "t3.micro")
        region == Get(params, "region", "us-east-1")
        os_type == Get(params, "os_type", "Linux")
        quantity == Get(params, "quantity", 1)
        hours_per_day == Get(params, "hours_per_day", 24)
        days_per_month == Get(params, "days_per_month", 30)
        price == Get(Get(tables.EC2_PRICES, instance_type, EmptyDict),
                     region, 0)
        base_price == IF os_type = "Windows"
                      THEN (price * WINDOWS_MULTIPLIER) \div 10
                      ELSE price
        monthly_hours == hours_per_day * days_per_month
    IN  Quote([unit_price |-> base_price, quantity |-> quantity,
               monthly_hours |-> monthly_hours,
               total_price |-> base_price * quantity * monthly_hours],
              params, tables)

\* estimate_ec2 adding the static catalog's flat Windows premium (0.058)
\* where it multiplies
estimate_ec2_flat_premium(params, tables) ==
    LET instance_type == Get(params, "instance_type", "t3.micro")
        region == Get(params, "region", "us-east-1")
        os_type == Get(params, "os_type", "Linux")
        quantity == Get(params, "quantity", 1)
        hours_per_day == Get(params, "hours_per_day", 24)
        days_per_month == Get(params, "days_per_month", 30)
        price == Get(Get(tables.EC2_PRICES, instance_type, EmptyDict),
                     region, EC2_DEFAULT_PRICE)
        base_price == IF os_type = "Windows"
                      THEN price + 100 * WINDOWS_PRICE_PREMIUM
                      ELSE price
        monthly_hours == hours_per_day * days_per_month
    IN  Quote([unit_price |-> base_price, quantity |-> quantity,
               monthly_hours |-> monthly_hours,
               total_price |-> base_price * quantity * monthly_hours],
              params, tables)

\* estimate_ec2 applying the multiplier to the table entry it read
\* (EC2_PRICES[instance_type][region] *= WINDOWS_MULTIPLIER) where it
\* multiplies its local
estimate_ec2_in_place(params, tables) ==
    LET instance_type == Get(params, "instance_type", "t3.micro")
        region == Get(params, "region", "us-east-1")
        os_type == Get(params, "os_type", "Linux")
        quantity == Get(params, "quantity", 1)
        hours_per_day == Get(params, "hours_per_day", 24)
        days_per_month == Get(params, "days_per_month", 30)
        prices == Get(tables.EC2_PRICES, instance_type, EmptyDict)
        price == Get(prices, region, EC2_DEFAULT_PRICE)
        base_price == IF os_type = "Windows"
                      THEN (price * WINDOWS_MULTIPLIER) \div 10
                      ELSE price
        monthly_hours == hours_per_day * days_per_month
    IN  Quote([unit_price |-> base_price, quantity |-> quantity,
               monthly_hours |-> monthly_hours,
               total_price |-> base_price * quantity * monthly_hours],
              params,
              IF os_type = "Windows" /\ region \in DOMAIN prices
              THEN [tables EXCEPT
                       !.EC2_PRICES[instance_type][region] = base_price]
              ELSE tables)

estimate_ec2(params, tables) ==
    LET instance_type == Get(params, "instance_type", "t3.micro")
        region == Get(params, "region", "us-east-1")
        os_type == Get(params, "os_type", "Linux")
        quantity == Get(params, "quantity", 1)
        hours_per_day == Get(params, "hours_per_day", 24)
        days_per_month == Get(params, "days_per_month", 30)
        price == Get(Get(tables.EC2_PRICES, instance_type, EmptyDict),
                     region, EC2_DEFAULT_PRICE)
        \* base_price *= WINDOWS_MULTIPLIER
        base_price == IF os_type = "Windows"
                      THEN (price * WINDOWS_MULTIPLIER) \div 10
                      ELSE price
        monthly_hours == hours_per_day * days_per_month
    IN  Quote([unit_price |-> base_price, quantity |-> quantity,
               monthly_hours |-> monthly_hours,
               total_price |-> base_price * quantity * monthly_hours],
              params, tables)

estimate_s3(params, tables) ==
    LET storage_gb == Get(params, "storage_gb", 100)
        storage_class == Get(params, "storage_class", "Standard")
        region == Get(params, "region", "us-east-1")
        base_price == Get(Get(tables.S3_PRICES, storage_class, EmptyDict),
                          region, S3_DEFAULT_PRICE)
    IN  Quote([unit_price |-> base_price, quantity |-> storage_gb,
               monthly_hours |-> 1,
               total_price |-> base_price * storage_gb],
              params, tables)

\* amounts in units of 0.0000000001 USD
estimate_lambda(params, tables) ==
    LET requests_millions == Get(params, "requests", 1)
        memory_mb == Get(params, "memory", 128)
        avg_duration_ms == Get(params, "avg_duration", 100)
        region == Get(params, "region", "us-east-1")
        \* requests_millions * 1000000 * (avg_duration_ms / 1000)
        total_seconds == (requests_millions * 1000000 * avg_duration_ms)
                             \div 1000
        \* total_seconds * (memory_mb / 1024)
        gb_seconds == (total_seconds * memory_mb) \div 1024
        request_price == Get(Get(tables.LAMBDA_PRICES, "requests", EmptyDict),
                             region, 2000000000)
        duration_price == Get(Get(tables.LAMBDA_PRICES, "duration", EmptyDict),
                              region, 166667)
        request_cost == request_price * requests_millions
        duration_cost == duration_price * gb_seconds
    IN  Quote([unit_price |-> duration_price, quantity |-> gb_seconds,
               requests_cost |-> request_cost,
               total_price |-> request_cost + duration_cost],
              params, tables)

estimate_fargate(params, tables) ==
    LET vcpu == Get(params, "vcpu", 1)
        memory_gb == Get(params, "memory_gb", 2)
        hours_per_month == Get(params, "hours_per_month", 730)
        region == Get(params, "region", "us-east-1")
        vcpu_price == Get(Get(tables.FARGATE_PRICES, "vcpu", EmptyDict),
                          region, 40480)
        memory_price == Get(Get(tables.FARGATE_PRICES, "memory", EmptyDict),
                            region, 4445)
        vcpu_cost == vcpu_price * vcpu * hours_per_month
        memory_cost == memory_price * memory_gb * hours_per_month
    IN  Quote([unit_price |-> (vcpu_price * vcpu) + (memory_price * memory_gb),
               quantity |-> hours_per_month,
               vcpu_cost |-> vcpu_cost,
               memory_cost |-> memory_cost,
               total_price |-> vcpu_cost + memory_cost],
              params, tables)

estimate_cloudwatch(params, tables) ==
    LET ingestion_gb == Get(params, "ingestion_gb", 10)
        storage_gb == Get(params, "storage_gb", 10)
        metrics == Get(params, "metrics", 10)
        alarms == Get(params, "alarms", 5)
        dashboards == Get(params, "dashboards", 1)
        ingestion_price == 500000
        storage_price == 30000
        metrics_price == 300000
        alarm_price == 100000
        dashboard_price == 3000000
    IN  Quote([unit_price |-> 1000000, quantity |-> 1,
               total_price |-> (ingestion_gb * ingestion_price)
                               + (storage_gb * storage_price)
                               + (metrics * metrics_price)
                               + (alarms * alarm_price)
                               + (dashboards * dashboard_price)],
              params, tables)

\* node_prices of estimate_elasticache
elasticache_node_prices ==
    "cache.t3.micro" :> 18000 @@ "cache.t3.small" :> 36000
    @@ "cache.t3.medium" :> 74000 @@ "cache.m5.large" :> 156000
    @@ "cache.r5.large" :> 216000

\* region_multipliers of estimate_elasticache and estimate_opensearch, in
\* hundredths
region_multipliers ==
    "us-east-1" :> 100 @@ "us-west-2" :> 100 @@ "eu-west-1" :> 110
    @@ "sa-east-1" :> 125

estimate_elasticache(params, tables) ==
    LET node_type == Get(params, "node_type", "cache.t3.micro")
        nodes == Get(params, "nodes", 1)
        hours == Get(params, "hours", 730)
        region == Get(params, "region", "us-east-1")
        base_price == Get(elasticache_node_prices, node_type, 18000)
        region_multiplier == Get(region_multipliers, region, 100)
        unit_price == (base_price * region_multiplier) \div 100
    IN  Quote([unit_price |-> unit_price, quantity |-> nodes * hours,
               total_price |-> unit_price * nodes * hours],
              params, tables)

\* estimate_ecr leaving the transfer out of the total
estimate_ecr_storage_only(params, tables) ==
    LET storage_gb == Get(params, "storage_gb", 10)
        data_transfer_gb == Get(params, "data_transfer_gb", 50)
        storage_price == 100000
        data_transfer_price == 90000
        storage_cost == storage_gb * storage_price
        data_transfer_cost == data_transfer_gb * data_transfer_price
    IN  Quote([unit_price |-> storage_price, quantity |-> storage_gb,
               data_transfer_cost |-> data_transfer_cost,
               total_price |-> storage_cost],
              params, tables)

estimate_ecr(params, tables) ==
    LET storage_gb == Get(params, "storage_gb", 10)
        data_transfer_gb == Get(params, "data_transfer_gb", 50)
        storage_price == 100000
        data_transfer_price == 90000
        storage_cost == storage_gb * storage_price
        data_transfer_cost == data_transfer_gb * data_transfer_price
    IN  Quote([unit_price |-> storage_price, quantity |-> storage_gb,
               data_transfer_cost |-> data_transfer_cost,
               total_price |-> storage_cost + data_transfer_cost],
              params, tables)

\* instance_prices of estimate_opensearch
opensearch_instance_prices ==
    "t3.small.search" :> 36000 @@ "t3.medium.search" :> 73000
    @@ "m5.large.search" :> 139000 @@ "c5.large.search" :> 123000

estimate_opensearch(params, tables) ==
    LET instance_type == Get(params, "instance_type", "t3.small.search")
        instances == Get(params, "instances", 1)
        storage_gb == Get(params, "storage_gb", 10)
        hours == Get(params, "hours", 730)
        region == Get(params, "region", "us-east-1")
        storage_price == 135000
        base_price == Get(opensearch_instance_prices, instance_type, 36000)
        region_multiplier == Get(region_multipliers, region, 100)
        instance_unit_price == (base_price * region_multiplier) \div 100
        instance_cost == instance_unit_price * instances * hours
        storage_cost == storage_price * storage_gb
    IN  Quote([unit_price |-> instance_unit_price,
               quantity |-> instances * hours,
               storage_cost |-> storage_cost,
               total_price |-> instance_cost + storage_cost],
              params, tables)

estimate_route53(params, tables) ==
    LET hosted_zones == Get(params, "hosted_zones", 1)
        queries_millions == Get(params, "queries_millions", 1)
        zone_price == 500000
        query_price == 400000
        zone_cost == hosted_zones * zone_price
        query_cost == queries_millions * query_price
    IN  Quote([unit_price |-> zone_price, quantity |-> hosted_zones,
               query_cost |-> query_cost,
               total_price |-> zone_cost + query_cost],
              params, tables)

\* {"error": "Service not supported"}
NotSupported == [error |-> "Service not supported"]

\* estimate_price whose chain ends in `else: return estimate_ec2(params)`
estimate_price_default_ec2(service, params, tables) ==
    CASE service = "EC2" ->
           estimate_ec2(params, tables) @@ [invoked |-> "estimate_ec2"]
      [] service = "S3" ->
           estimate_s3(params, tables) @@ [invoked |-> "estimate_s3"]
      [] service = "Lambda" ->
           estimate_lambda(params, tables) @@ [invoked |-> "estimate_lambda"]
      [] service = "Fargate/ECS" ->
           estimate_fargate(params, tables) @@ [invoked |-> "estimate_fargate"]
      [] service = "CloudWatch" ->
           estimate_cloudwatch(params, tables)
               @@ [invoked |-> "estimate_cloudwatch"]
      [] service = "ElastiCache" ->
           estimate_elasticache(params, tables)
               @@ [invoked |-> "estimate_elasticache"]
      [] service = "ECR" ->
           estimate_ecr(params, tables) @@ [invoked |-> "estimate_ecr"]
      [] service = "OpenSearch" ->
           estimate_opensearch(params, tables)
               @@ [invoked |-> "estimate_opensearch"]
      [] service = "Route 53" ->
           estimate_route53(params, tables) @@ [invoked |-> "estimate_route53"]
      [] OTHER ->
           estimate_ec2(params, tables) @@ [invoked |-> "estimate_ec2"]

\* estimate_price(service, params): the outcome of the cost model it calls
\* and the name of that model, "none" when it calls none
estimate_price(service, params, tables) ==
    CASE service = "EC2" ->
           estimate_ec2(params, tables) @@ [invoked |-> "estimate_ec2"]
      [] service = "S3" ->
           estimate_s3(params, tables) @@ [invoked |-> "estimate_s3"]
      [] service = "Lambda" ->
           estimate_lambda(params, tables) @@ [invoked |-> "estimate_lambda"]
      [] service = "Fargate/ECS" ->
           estimate_fargate(params, tables) @@ [invoked |-> "estimate_fargate"]
      [] service = "CloudWatch" ->
           estimate_cloudwatch(params, tables)
               @@ [invoked |-> "estimate_cloudwatch"]
      [] service = "ElastiCache" ->
           estimate_elasticache(params, tables)
               @@ [invoked |-> "estimate_elasticache"]
      [] service = "ECR" ->
           estimate_ecr(params, tables) @@ [invoked |-> "estimate_ecr"]
      [] service = "OpenSearch" ->
           estimate_opensearch(params, tables)
               @@ [invoked |-> "estimate_opensearch"]
      [] service = "Route 53" ->
           estimate_route53(params, tables) @@ [invoked |-> "estimate_route53"]
      [] OTHER ->
           Quote(NotSupported, params, tables) @@ [invoked |-> "none"]

(***************************************************************************)
(* aws_services.get_ec2_price and the pricing API behind it                *)
(* (aws_services.py, aws_static_resources.py, static/mock_aws_pricing.py). *)
(* A string that the code takes apart is a sequence of one-character       *)
(* strings here, and Join gives it as a string.  Prices are integers in    *)
(* units of 0.000001 USD.                                                  *)
(***************************************************************************)
RECURSIVE Join(_)
Join(chars) == IF chars = <<>> THEN "" ELSE Head(chars) \o Join(Tail(chars))

\* str.split(sep) for a one-character sep: the pieces between the seps
RECURSIVE split(_, _)
split(chars, sep) ==
    IF \A i \in DOMAIN chars : chars[i] # sep THEN <<chars>>
    ELSE LET first == CHOOSE i \in DOMAIN chars :
                          /\ chars[i] = sep
                          /\ \A j \in 1..(i - 1) : chars[j] # sep
         IN  <<SubSeq(chars, 1, first - 1)>>
                 \o split(SubSeq(chars, first + 1, Len(chars)), sep)

\* `sub in chars` for two strings
Contains(sub, chars) ==
    \E i \in 0..(Len(chars) - Len(sub)) :
        SubSeq(chars, i + 1, i + Len(sub)) = sub

\* static/mock_aws_pricing.EC2_PRICE_DATA, keyed by "region:type:os"
EC2_PRICE_DATA ==
    "us-east-1:t2.micro:Linux" :> 11600 @@
    "us-east-1:t2.small:Linux" :> 23000 @@
    "us-east-1:t2.medium:Linux" :> 46400 @@
    "us-east-1:t2.large:Linux" :> 92800 @@
    "us-east-1:t3.micro:Linux" :> 10400 @@
    "us-east-1:t3.small:Linux" :> 20800 @@
    "us-east-1:t3.medium:Linux" :> 41600 @@
    "us-east-1:m5.large:Linux" :> 96000 @@
    "us-east-1:m5.xlarge:Linux" :> 192000 @@
    "us-east-1:m5.2xlarge:Linux" :> 384000 @@
    "us-east-1:c5.large:Linux" :> 85000 @@
    "us-east-1:c5.xlarge:Linux" :> 170000 @@
    "us-east-1:r5.large:Linux" :> 126000 @@
    "us-east-1:r5.xlarge:Linux" :> 252000 @@
    "us-east-1:t2.micro:Windows" :> 16200 @@
    "us-east-1:t2.medium:Windows" :> 64400 @@
    "us-east-1:m5.large:Windows" :> 192000 @@
    "us-west-2:t2.micro:Linux" :> 11600 @@
    "us-west-2:t2.medium:Linux" :> 46400 @@
    "us-west-2:m5.large:Linux" :> 96000 @@
    "us-west-2:c5.large:Linux" :> 85000 @@
    "eu-west-1:t2.micro:Linux" :> 12600 @@
    "eu-west-1:t2.medium:Linux" :> 50400 @@
    "eu-west-1:m5.large:Linux" :> 107000 @@
    "eu-west-1:c5.large:Linux" :> 97000 @@
    "sa-east-1:t2.micro:Linux" :> 18100 @@
    "sa-east-1:t2.small:Linux" :> 36200 @@
    "sa-east-1:t2.medium:Linux" :> 72400 @@
    "sa-east-1:t3.micro:Linux" :> 16200 @@
    "sa-east-1:t3.small:Linux" :> 32400 @@
    "sa-east-1:t3.medium:Linux" :> 64800 @@
    "sa-east-1:m5.large:Linux" :> 148000 @@
    "sa-east-1:c5.large:Linux" :> 130000 @@
    "sa-east-1:r5.large:Linux" :> 196000

\* aws_static_resources.EC2_INSTANCES in the order of the dict: the families
\* and of each instance its "type"
EC2_INSTANCES == <<
    [family |-> "t4g", types |-> <<
          "t4g.nano", "t4g.micro", "t4g.small", "t4g.medium",
          "t4g.large", "t4g.xlarge", "t4g.2xlarge">>],
    [family |-> "t3", types |-> <<
          "t3.nano", "t3.micro", "t3.small", "t3.medium",
          "t3.large", "t3.xlarge", "t3.2xlarge">>],
    [family |-> "m7g", types |-> <<
          "m7g.medium", "m7g.large", "m7g.xlarge", "m7g.2xlarge",
          "m7g.4xlarge", "m7g.8xlarge", "m7g.12xlarge",
          "m7g.16xlarge", "m7g.metal">>],
    [family |-> "m7i", types |-> <<
          "m7i.large", "m7i.xlarge", "m7i.2xlarge", "m7i.4xlarge",
          "m7i.8xlarge", "m7i.12xlarge", "m7i.16xlarge",
          "m7i.24xlarge", "m7i.48xlarge", "m7i.metal-24xl",
          "m7i.metal-48xl">>],
    [family |-> "m6g", types |-> <<
          "m6g.medium", "m6g.large", "m6g.xlarge", "m6g.2xlarge",
          "m6g.4xlarge", "m6g.8xlarge", "m6g.12xlarge",
          "m6g.16xlarge", "m6g.metal">>],
    [family |-> "m6i", types |-> <<
          "m6i.large", "m6i.xlarge", "m6i.2xlarge", "m6i.4xlarge",
          "m6i.8xlarge", "m6i.12xlarge", "m6i.16xlarge",
          "m6i.24xlarge", "m6i.32xlarge">>],
    [family |-> "m5", types |-> <<
          "m5.large", "m5.xlarge", "m5.2xlarge", "m5.4xlarge",
          "m5.8xlarge", "m5.12xlarge", "m5.16xlarge",
          "m5.24xlarge">>],
    [family |-> "c7g", types |-> <<
          "c7g.medium", "c7g.large", "c7g.xlarge", "c7g.2xlarge",
          "c7g.4xlarge", "c7g.8xlarge", "c7g.12xlarge",
          "c7g.16xlarge">>],
    [family |-> "c6g", types |-> <<
          "c6g.medium", "c6g.large", "c6g.xlarge", "c6g.2xlarge",
          "c6g.4xlarge", "c6g.8xlarge", "c6g.12xlarge",
          "c6g.16xlarge">>],
    [family |-> "c6i", types |-> <<
          "c6i.large", "c6i.xlarge", "c6i.2xlarge", "c6i.4xlarge",
          "c6i.8xlarge", "c6i.12xlarge", "c6i.16xlarge",
          "c6i.24xlarge", "c6i.32xlarge">>],
    [family |-> "r7g", types |-> <<
          "r7g.medium", "r7g.large", "r7g.xlarge", "r7g.2xlarge",
          "r7g.4xlarge", "r7g.8xlarge", "r7g.12xlarge",
          "r7g.16xlarge">>],
    [family |-> "r6g", types |-> <<
          "r6g.medium", "r6g.large", "r6g.xlarge", "r6g.2xlarge",
          "r6g.4xlarge", "r6g.8xlarge", "r6g.12xlarge",
          "r6g.16xlarge">>],
    [family |-> "r6i", types |-> <<
          "r6i.large", "r6i.xlarge", "r6i.2xlarge", "r6i.4xlarge",
          "r6i.8xlarge", "r6i.12xlarge", "r6i.16xlarge",
          "r6i.24xlarge", "r6i.32xlarge">>],
    [family |-> "g5", types |-> <<
          "g5.xlarge", "g5.2xlarge", "g5.4xlarge", "g5.8xlarge",
          "g5.12xlarge", "g5.16xlarge", "g5.24xlarge",
          "g5.48xlarge">>]>>

\* the regions and systems create_mock_ec2_pricing_data loops over
mock_regions == <<"us-east-1", "us-west-2", "eu-west-1", "sa-east-1">>
mock_os_options == <<"Linux", "Windows">>

\* create_mock_ec2_pricing_data(): one product per instance, region and
\* system, in the order of the four loops.  Of a product the model keeps
\* the keys and the attributes that name it: the product has the keys
\* serviceCode, attributes and terms, and no other.
create_mock_ec2_pricing_data ==
    Flatten([f \in DOMAIN EC2_INSTANCES |->
      Flatten([i \in DOMAIN EC2_INSTANCES[f].types |->
        Flatten([r \in DOMAIN mock_regions |->
          [o \in DOMAIN mock_os_options |->
            [serviceCode |-> "AmazonEC2",
             attributes |->
                 [instanceType |-> EC2_INSTANCES[f].types[i],
                  operatingSystem |-> mock_os_options[o],
                  location |-> mock_regions[r],
                  instanceFamily |-> EC2_INSTANCES[f].family],
             terms |-> [OnDemand |-> "price"]]]])])])

mock_aws_pricing(service_code) ==
    IF service_code = "AmazonEC2" THEN create_mock_ec2_pricing_data
    ELSE <<>>

\* What the pricing API does in one get_aws_pricing call: boto3 raises
\* (no credentials, no network), or get_products answers with a PriceList,
\* here already parsed.
ApiErrors == {"NoCredentialsError", "EndpointConnectionError"}

\* a product as the pricing API writes it: the attributes are inside
\* "product", the prices inside "terms"
ApiProduct(instance_type) ==
    [product |-> [productFamily |-> "Compute Instance",
                  attributes |-> [instanceType |-> instance_type]],
     serviceCode |-> "AmazonEC2",
     terms |-> [OnDemand |-> "price"]]

\* get_aws_pricing(service_code, filters): the products; every error is
\* caught and answered with the mock products
get_aws_pricing(service_code, api) ==
    IF api.answer \in ApiErrors THEN mock_aws_pricing(service_code)
    ELSE api.PriceList

\* base_prices and size_multipliers of the estimate branch; the dict
\* size_multipliers in its order, its values in units of 0.25
base_prices ==
    "t2" :> 11600 @@ "t3" :> 10400 @@ "t4g" :> 8400 @@ "m5" :> 96000 @@
    "m6g" :> 77000 @@ "m6i" :> 96000 @@ "c5" :> 85000 @@ "c6g" :> 68000 @@
    "c6i" :> 85000 @@ "r5" :> 126000 @@ "r6g" :> 101000 @@
    "r6i" :> 126000 @@ "x2" :> 3970000 @@ "z1d" :> 240000

UNKNOWN_FAMILY_PRICE == 50000

size_multipliers == <<
    [size_name |-> <<"n", "a", "n", "o">>, size_value |-> 1],
    [size_name |-> <<"m", "i", "c", "r", "o">>, size_value |-> 2],
    [size_name |-> <<"s", "m", "a", "l", "l">>, size_value |-> 4],
    [size_name |-> <<"m", "e", "d", "i", "u", "m">>, size_value |-> 8],
    [size_name |-> <<"l", "a", "r", "g", "e">>, size_value |-> 16],
    [size_name |-> <<"x", "l", "a", "r", "g", "e">>, size_value |-> 32],
    [size_name |-> <<"2", "x", "l", "a", "r", "g", "e">>, size_value |-> 64],
    [size_name |-> <<"4", "x", "l", "a", "r", "g", "e">>, size_value |-> 128],
    [size_name |-> <<"8", "x", "l", "a", "r", "g", "e">>, size_value |-> 256],
    [size_name |-> <<"1", "6", "x", "l", "a", "r", "g", "e">>, size_value |-> 512],
    [size_name |-> <<"3", "2", "x", "l", "a", "r", "g", "e">>, size_value |-> 1024]>>

\* the for loop over size_multipliers.items(): the value of the first
\* size_name that instance_size contains, 1 (four quarters) when none is
RECURSIVE first_size_value(_, _)
first_size_value(instance_size, i) ==
    IF i > Len(size_multipliers) THEN 4
    ELSE IF Contains(size_multipliers[i].size_name, instance_size)
    THEN size_multipliers[i].size_value
    ELSE first_size_value(instance_size, i + 1)

\* the record get_ec2_price returns
PriceRecord(instance_type, region, os, price, hours, source) ==
    [kind |-> "return", val |-> "record",
     rec |-> [instance_type |-> instance_type, region |-> region,
              operating_system |-> os, price_per_hour |-> price,
              hours_per_month |-> hours, monthly_cost |-> price * hours,
              source |-> source]]

\* the except branch of get_ec2_price: the static price of the key, or an
\* estimate from the family and the size of the instance type
static_or_estimate(instance_type, region, os, hours_per_month) ==
    LET price_key == region \o ":" \o Join(instance_type) \o ":" \o os
        parts == split(instance_type, ".")
    IN  IF price_key \in DOMAIN EC2_PRICE_DATA
        THEN PriceRecord(instance_type, region, os, EC2_PRICE_DATA[price_key],
                         hours_per_month, "static_data")
        ELSE IF Len(parts) < 2
        THEN [kind |-> "raise", val |-> "IndexError", rec |-> EmptyDict]
        ELSE LET base_price == Get(base_prices, Join(parts[1]),
                                   UNKNOWN_FAMILY_PRICE)
                 multiplier == first_size_value(parts[2], 1)
                 r == PriceRecord(instance_type, region, os,
                                  (base_price * multiplier) \div 4,
                                  hours_per_month, "estimated_data")
             IN  [r EXCEPT !.rec = @ @@ [note |-> "estimated"]]

\* aws_services.get_ec2_price(instance_type, region, os, hours_per_month)
\* when the pricing API does api
aws_services_get_ec2_price(instance_type, region, os, hours_per_month, api) ==
    LET products == get_aws_pricing("AmazonEC2", api)
    IN  IF products = <<>>
        THEN \* ValueError, caught by `except Exception`
             static_or_estimate(instance_type, region, os, hours_per_month)
        ELSE PriceRecord(instance_type, region, os,
                         Get(products[1], "onDemandPrice", 0),
                         hours_per_month, "aws_api")

(***************************************************************************)
(* The calculator page (app.py).  The values of a resource entry carry     *)
(* their Python type: a str, an int, or a float.  A float is the exact     *)
(* decimal micro * 0.000001 + frac * 0.0000000001, so the sums of the      *)
(* model are the sums of the code up to the rounding of float addition.    *)
(***************************************************************************)
PyStr(s) == [type |-> "str", s |-> s]
PyInt(n) == [type |-> "int", n |-> n]
PyFloat(micro, frac) == [type |-> "float", micro |-> micro, frac |-> frac]

\* the float of an amount of a cost model: in units of 0.0000000001 USD for
\* estimate_lambda, of 0.000001 USD for the others
AsFloat(service, amount) ==
    IF service = "Lambda"
    THEN PyFloat(amount \div 10000, amount % 10000)
    ELSE PyFloat(amount, 0)

\* x + y for an int or a float x and a float y
Plus(x, y) ==
    LET micro == IF x.type = "int" THEN x.n * 1000000 ELSE x.micro
        frac == IF x.type = "int" THEN 0 ELSE x.frac
    IN  PyFloat(micro + y.micro + (frac + y.frac) \div 10000,
                (frac + y.frac) % 10000)

\* f"{x:.Nf}" for a float x, as the count of units of `unit` micro-USD
\* (10000 for two decimals, 100 for four): the nearest count, the even one
\* of two that are equally near
FormatFixed(x, unit) ==
    LET count == x.micro \div unit
        rest == x.micro % unit
    IN  IF 2 * rest > unit \/ (2 * rest = unit /\ x.frac > 0) THEN count + 1
        ELSE IF 2 * rest = unit /\ count % 2 = 1 THEN count + 1
        ELSE count

\* entries of the session list are added at its end
append_at_front(list, resource) == <<resource>> \o list

\* st.session_state.resources.append(resource)
append(list, resource) == Append(list, resource)

\* sum(resource["total_price"] for resource in resources): the additions
\* start from the int 0
RECURSIVE sum_total_price(_)
sum_total_price(rows) ==
    IF rows = <<>> THEN PyInt(0)
    ELSE Plus(sum_total_price(SubSeq(rows, 1, Len(rows) - 1)),
              rows[Len(rows)].total_price)

\* str(n) for a float that the model holds as the integer n
FloatStr(n) == ToString(n) \o ".0"

\* The widgets of the nine forms, with the values a user left in them.
Forms ==
    [service : {"EC2"}, instance_type : {"t3.micro"}, region : {"us-east-1"},
     os_type : {"Linux", "Windows"}, quantity : {1}, hours_per_day : {24},
     days_per_month : {30}]
    \cup [service : {"S3"}, storage_gb : {100}, storage_class : {"Standard"},
          region : {"us-east-1"}]
    \cup [service : {"Lambda"}, requests_millions : {1}, memory_mb : {128},
          avg_duration_ms : {2}, region : {"us-east-1"}]
    \cup [service : {"Fargate/ECS"}, vcpu : {1}, memory_gb : {2},
          hours_per_day : {24}, days_per_month : {30}, region : {"eu-west-1"}]
    \cup [service : {"CloudWatch"}, ingestion_gb : {10}, storage_gb : {10},
          metrics : {10}, alarms : {5}, dashboards : {1}]
    \cup [service : {"ElastiCache"}, node_type : {"cache.t3.micro"},
          nodes : {1}, hours_per_day : {24}, days_per_month : {30},
          region : {"us-east-1"}]
    \cup [service : {"ECR"}, storage_gb : {10}, data_transfer_gb : {50}]
    \cup [service : {"OpenSearch"}, instance_type : {"t3.small.search"},
          instances : {1}, storage_gb : {10}, region : {"sa-east-1"}]
    \cup [service : {"Route 53"}, hosted_zones : {1}, queries_millions : {1}]

\* the params dict that the button of the form builds
form_params(w) ==
    CASE w.service = "EC2" ->
           [instance_type |-> w.instance_type, region |-> w.region,
            os_type |-> w.os_type, quantity |-> w.quantity,
            hours_per_day |-> w.hours_per_day,
            days_per_month |-> w.days_per_month]
      [] w.service = "S3" ->
           [storage_gb |-> w.storage_gb, storage_class |-> w.storage_class,
            region |-> w.region]
      [] w.service = "Lambda" ->
           [requests |-> w.requests_millions, memory |-> w.memory_mb,
            avg_duration |-> w.avg_duration_ms, region |-> w.region]
      [] w.service = "Fargate/ECS" ->
           [vcpu |-> w.vcpu, memory_gb |-> w.memory_gb,
            hours_per_month |-> w.hours_per_day * w.days_per_month,
            region |-> w.region]
      [] w.service = "CloudWatch" ->
           [ingestion_gb |-> w.ingestion_gb, storage_gb |-> w.storage_gb,
            metrics |-> w.metrics, alarms |-> w.alarms,
            dashboards |-> w.dashboards]
      [] w.service = "ElastiCache" ->
           [node_type |-> w.node_type, nodes |-> w.nodes,
            hours |-> w.hours_per_day * w.days_per_month, region |-> w.region]
      [] w.service = "ECR" ->
           [storage_gb |-> w.storage_gb,
            data_transfer_gb |-> w.data_transfer_gb]
      [] w.service = "OpenSearch" ->
           [instance_type |-> w.instance_type, instances |-> w.instances,
            storage_gb |-> w.storage_gb, region |-> w.region]
      [] w.service = "Route 53" ->
           [hosted_zones |-> w.hosted_zones,
            queries_millions |-> w.queries_millions]

\* the "details" of the entry
form_details(w) ==
    CASE w.service = "EC2" ->
           w.instance_type \o " (" \o w.region \o ", " \o w.os_type \o ")"
      [] w.service = "S3" -> w.storage_class \o " (" \o w.region \o ")"
      [] w.service = "Lambda" ->
           ToString(w.memory_mb) \o "MB, " \o ToString(w.avg_duration_ms)
               \o "ms, " \o FloatStr(w.requests_millions) \o "M requests ("
               \o w.region \o ")"
      [] w.service = "Fargate/ECS" ->
           FloatStr(w.vcpu) \o " vCPU, " \o FloatStr(w.memory_gb)
               \o "GB RAM (" \o w.region \o ")"
      [] w.service = "CloudWatch" ->
           ToString(w.ingestion_gb) \o "GB logs, " \o ToString(w.metrics)
               \o " metrics, " \o ToString(w.alarms) \o " alarms, "
               \o ToString(w.dashboards) \o " dashboards"
      [] w.service = "ElastiCache" ->
           ToString(w.nodes) \o " nodes " \o w.node_type \o " (" \o w.region
               \o ")"
      [] w.service = "ECR" ->
           ToString(w.storage_gb) \o "GB storage, "
               \o ToString(w.data_transfer_gb) \o "GB data transfer"
      [] w.service = "OpenSearch" ->
           ToString(w.instances) \o " instances " \o w.instance_type \o ", "
               \o ToString(w.storage_gb) \o "GB (" \o w.region \o ")"
      [] w.service = "Route 53" ->
           ToString(w.hosted_zones) \o " zones, "
               \o FloatStr(w.queries_millions) \o "M queries/month"

\* the "quantity", "unit_price" and "monthly_hours" of the entry, from the
\* widgets and from price_data, the quote of estimate_price
form_quantity(w, price_data) ==
    CASE w.service = "EC2" -> PyInt(w.quantity)
      [] w.service = "S3" -> PyInt(w.storage_gb)
      [] w.service = "Lambda" -> PyFloat(price_data.quantity * 1000000, 0)
      [] w.service = "Fargate/ECS" ->
           PyInt(w.hours_per_day * w.days_per_month)
      [] w.service = "CloudWatch" -> PyInt(1)
      [] w.service = "ElastiCache" -> PyInt(w.nodes)
      [] w.service = "ECR" -> PyInt(w.storage_gb)
      [] w.service = "OpenSearch" -> PyInt(w.instances)
      [] w.service = "Route 53" -> PyInt(w.hosted_zones)

form_unit_price(w, price_data) ==
    IF w.service = "CloudWatch"
    THEN AsFloat(w.service, price_data.total_price)
    ELSE AsFloat(w.service, price_data.unit_price)

form_monthly_hours(w, price_data) ==
    CASE w.service = "EC2" -> PyInt(price_data.monthly_hours)
      [] w.service \in {"Fargate/ECS", "ElastiCache"} ->
           PyInt(w.hours_per_day * w.days_per_month)
      [] w.service = "OpenSearch" -> PyInt(730)
      [] OTHER -> PyInt(1)

\* the order of the keys of an entry and of the export document
resource_keys == <<"service", "details", "quantity", "unit_price",
                   "monthly_hours", "total_price">>
export_keys == <<"resources", "total_cost">>

\* the entry that the button of the form appends
resource_of(w, price_data) ==
    [service |-> PyStr(w.service),
     details |-> PyStr(form_details(w)),
     quantity |-> form_quantity(w, price_data),
     unit_price |-> form_unit_price(w, price_data),
     monthly_hours |-> form_monthly_hours(w, price_data),
     total_price |-> AsFloat(w.service, price_data.total_price)]

\* a float written with two digits after the point
json_scalar_two_digits(v) ==
    CASE v.type = "str" -> [t |-> "string", s |-> v.s]
      [] v.type = "int" ->
           [t |-> "number", whole |-> v.n, fraction |-> <<0, 0>>,
            point |-> FALSE]
      [] v.type = "float" ->
           [t |-> "number", whole |-> v.micro \div 1000000,
            fraction |-> <<((v.micro % 1000000) \div 10000) * 10000, 0>>,
            point |-> TRUE]

\* json.dumps, the text as its tokens.  A number is written with its
\* digits before and after the point; a float always has a point.
json_scalar(v) ==
    CASE v.type = "str" -> [t |-> "string", s |-> v.s]
      [] v.type = "int" ->
           [t |-> "number", whole |-> v.n, fraction |-> <<0, 0>>,
            point |-> FALSE]
      [] v.type = "float" ->
           [t |-> "number", whole |-> v.micro \div 1000000,
            fraction |-> <<v.micro % 1000000, v.frac>>, point |-> TRUE]

Token(t) == [t |-> t]

\* the members "key": value of a dict of scalars, keys in the order of the
\* dict, a comma between two
RECURSIVE json_members(_, _, _)
json_members(dict, keys, i) ==
    IF i > Len(keys) THEN <<>>
    ELSE (IF i > 1 THEN <<Token(",")>> ELSE <<>>)
         \o <<[t |-> "string", s |-> keys[i]], Token(":"),
              json_scalar(dict[keys[i]])>>
         \o json_members(dict, keys, i + 1)

RECURSIVE json_elements(_, _)
json_elements(rows, i) ==
    IF i > Len(rows) THEN <<>>
    ELSE (IF i > 1 THEN <<Token(",")>> ELSE <<>>)
         \o <<Token("{")>> \o json_members(rows[i], resource_keys, 1)
         \o <<Token("}")>>
         \o json_elements(rows, i + 1)

\* json.dumps(export_data, indent=4)
json_dumps(export_data) ==
    <<Token("{"), [t |-> "string", s |-> export_keys[1]], Token(":"),
      Token("[")>>
    \o json_elements(export_data.resources, 1)
    \o <<Token("]"), Token(","), [t |-> "string", s |-> export_keys[2]],
         Token(":"), json_scalar(export_data.total_cost), Token("}")>>

\* json.loads: [value, next], the value that starts at token i and the
\* index of the token after it.  A number with a point is a float, one
\* without is an int; of two members with one key the later one stays.
RECURSIVE parse_value(_, _)
RECURSIVE parse_members(_, _, _)
RECURSIVE parse_elements(_, _, _)
parse_value(tokens, i) ==
    CASE tokens[i].t = "string" ->
           [value |-> PyStr(tokens[i].s), next |-> i + 1]
      [] tokens[i].t = "number" ->
           [value |-> IF tokens[i].point
                      THEN PyFloat(tokens[i].whole * 1000000
                                       + tokens[i].fraction[1],
                                   tokens[i].fraction[2])
                      ELSE PyInt(tokens[i].whole),
            next |-> i + 1]
      [] tokens[i].t = "{" -> parse_members(tokens, i + 1, EmptyDict)
      [] tokens[i].t = "[" -> parse_elements(tokens, i + 1, <<>>)

parse_members(tokens, i, dict) ==
    IF tokens[i].t = "}" THEN [value |-> dict, next |-> i + 1]
    ELSE IF tokens[i].t = "," THEN parse_members(tokens, i + 1, dict)
    ELSE LET key == tokens[i].s
             v == parse_value(tokens, i + 2)
         IN  parse_members(tokens, v.next,
                           [k \in DOMAIN dict \cup {key} |->
                               IF k = key THEN v.value ELSE dict[k]])

parse_elements(tokens, i, list) ==
    IF tokens[i].t = "]" THEN [value |-> list, next |-> i + 1]
    ELSE IF tokens[i].t = "," THEN parse_elements(tokens, i + 1, list)
    ELSE LET v == parse_value(tokens, i)
         IN  parse_elements(tokens, v.next, Append(list, v.value))

json_loads(tokens) == parse_value(tokens, 1).value

\* The page below the forms, as the script draws it from the resource
\* list: nothing for an empty list; else the table with its formatted
\* prices, the total and its heading, and the export document.  clicked
\* is the button that started the run of the script.
NoRender == [drawn |-> FALSE, table |-> <<>>, total_cost |-> PyInt(0),
             total_shown |-> 0, export_json |-> <<>>, clicked |-> "none"]

\* the sum of the totals as the table shows them, of two decimals each
RECURSIVE sum_total_price_as_shown(_)
sum_total_price_as_shown(rows) ==
    IF rows = <<>> THEN PyInt(0)
    ELSE Plus(sum_total_price_as_shown(SubSeq(rows, 1, Len(rows) - 1)),
              PyFloat(FormatFixed(rows[Len(rows)].total_price, 10000) * 10000,
                      0))

\* the page with its totals added up from the prices it shows
render_total_of_shown(rows, button) ==
    IF rows = <<>> THEN [NoRender EXCEPT !.clicked = button]
    ELSE [drawn |-> TRUE, clicked |-> button,
          table |-> [i \in DOMAIN rows |->
                        [Service |-> rows[i].service.s,
                         Details |-> rows[i].details.s,
                         UnitPrice |-> FormatFixed(rows[i].unit_price, 100),
                         TotalPrice |-> FormatFixed(rows[i].total_price,
                                                    10000)]],
          total_cost |-> sum_total_price_as_shown(rows),
          total_shown |-> FormatFixed(sum_total_price_as_shown(rows), 10000),
          export_json |-> json_dumps([resources |-> rows,
                                      total_cost |->
                                          sum_total_price_as_shown(rows)])]

\* the page that the run started by button draws from the list
render(rows, button) ==
    IF rows = <<>> THEN [NoRender EXCEPT !.clicked = button]
    ELSE [drawn |-> TRUE, clicked |-> button,
          table |-> [i \in DOMAIN rows |->
                        [Service |-> rows[i].service.s,
                         Details |-> rows[i].details.s,
                         UnitPrice |-> FormatFixed(rows[i].unit_price, 100),
                         TotalPrice |-> FormatFixed(rows[i].total_price,
                                                    10000)]],
          total_cost |-> sum_total_price(rows),
          total_shown |-> FormatFixed(sum_total_price(rows), 10000),
          export_json |-> json_dumps([resources |-> rows,
                                      total_cost |-> sum_total_price(rows)])]

\* aws_static_resources.get_ec2_instance_types()
get_ec2_instance_types ==
    sorted(Flatten([f \in DOMAIN EC2_INSTANCES |-> EC2_INSTANCES[f].types]))

\* get_ec2_instances_from_api(): the types that the products name in a
\* top-level "attributes", each once, sorted
get_ec2_instances_from_api(api) ==
    TheOne({sorted(list_of(
                {products[i].attributes.instanceType
                   : i \in {j \in DOMAIN products :
                              "attributes" \in DOMAIN products[j]}}))
            : products \in {get_aws_pricing("AmazonEC2", api)}})

\* get_all_ec2_instance_types(); nothing that it calls raises
get_all_ec2_instance_types(api) ==
    TheOne({IF Len(api_instances) > 0 THEN api_instances
            ELSE get_ec2_instance_types
            : api_instances \in {get_ec2_instances_from_api(api)}})

(***************************************************************************)
(* Actions: one per call.                                                  *)
(***************************************************************************)
NoCall == [used |-> FALSE, args |-> NoArgs, answer |-> NoRet,
           live_args |-> <<>>, static_args |-> <<>>,
           live |-> NoRet, static |-> NoRet]

\* A monitor call with outcome r, made as operation name; limit is the
\* max_retries of the probe it runs when it runs one.
Monitor(name, r, forced, limit) ==
    /\ _aws_online' = r.online
    /\ _force_mode' = r.force
    /\ ret' = r.ret
    /\ attempts' = r.attempts
    /\ op' = name
    /\ lastForce' = forced
    /\ retry_limit' = limit
    /\ call' = NoCall
    /\ UNCHANGED <<_pricing_client, nonlocal_offline_func>>
    /\ UNCHANGED pricing_vars
    /\ UNCHANGED other_vars

\* A dispatcher call with arguments args and outcome r.  live and static
\* are what the two operations answer to args in this call: live is the
\* live operation's outcome in the state is_aws_online() leaves when it
\* answers True (NoRet when it does not), static the static operation's.
Dispatch(name, args, r, cell, live, static) ==
    /\ _aws_online' = r.st.online
    /\ _force_mode' = r.st.force
    /\ _pricing_client' = r.st.client
    /\ nonlocal_offline_func' = cell
    /\ ret' = r.ret
    /\ attempts' = r.attempts
    /\ op' = name
    /\ call' = [used |-> TRUE, args |-> args, answer |-> r.answer,
                live_args |-> r.live_args, static_args |-> r.static_args,
                live |-> live, static |-> static]
    /\ retry_limit' = DEFAULT_MAX_RETRIES
    /\ UNCHANGED lastForce
    /\ UNCHANGED pricing_vars
    /\ UNCHANGED other_vars

\* The responses the endpoint gives to the requests of one call that
\* retries at most n times.  A call made while `quiet` holds issues no
\* request: there the endpoint is up or down (the same response to every
\* request), which stands for the responses that nothing asks for.
Steady(n) == {[i \in 1..n |-> r] : r \in {"200", "ConnectionError"}}
Net(n, quiet) == IF quiet THEN Steady(n + 1) ELSE Network(n + 1)

\* check_aws_connection() issues no request when the override is set,
\* is_aws_online() when the override is set or the flag is verified.
Overridden == _force_mode # "None"
Answered == _force_mode # "None" \/ _aws_online # "None"
DispatchNet == Net(DEFAULT_MAX_RETRIES, Answered)

\* the states of the monitor and the pricing client, and the current one
States == [force : Tri, online : Tri, client : {"None", "client"}]
State == [force |-> _force_mode, online |-> _aws_online,
          client |-> _pricing_client]

\* The pricing API as a dispatcher call meets it.  Only the live operation
\* contacts it, and the live operation runs only after is_aws_online()
\* answered True; in every other call one condition of the API stands for
\* all of them.
DispatchEnvs(net) ==
    IF is_aws_online(_force_mode, _aws_online, net).ret = Return("True")
    THEN LiveEnvs
    ELSE {[client |-> "ok", response |-> "ok"]}

CheckAwsConnection ==
    \E max_retries \in -1..MaxRetries :
        \E net \in Net(max_retries, Overridden) :
            Monitor("check_aws_connection",
                    check_aws_connection(_force_mode, _aws_online, max_retries, net),
                    lastForce, max_retries)

IsAwsOnline ==
    \E net \in Net(DEFAULT_MAX_RETRIES, Answered) :
        Monitor("is_aws_online",
                is_aws_online(_force_mode, _aws_online, net), lastForce,
                DEFAULT_MAX_RETRIES)

ForceOnlineMode ==
    Monitor("force_online_mode",
            force_online_mode(_force_mode, _aws_online), "online",
            DEFAULT_MAX_RETRIES)

ForceOfflineMode ==
    Monitor("force_offline_mode",
            force_offline_mode(_force_mode, _aws_online), "offline",
            DEFAULT_MAX_RETRIES)

ResetConnectionState ==
    Monitor("reset_connection_state",
            reset_connection_state(_force_mode, _aws_online), "reset",
            DEFAULT_MAX_RETRIES)

\* the outcome of online_func on args in the state that is_aws_online()
\* leaves when it answers True
LiveOutcome(online_func, args, net) ==
    TheOne({
      IF on.ret = Return("True")
      THEN online_func[<<args, [State EXCEPT !.online = on.online]>>].ret
      ELSE NoRet
      : on \in {is_aws_online(_force_mode, _aws_online, net)}})

\* pricing_service.get_ec2_price(instance_type, region, operating_system),
\* the function as its callers see it: the with_fallback wrapper, called
\* with arguments of ArgSet
GetEc2PriceOf(ArgSet) ==
    \E args \in ArgSet, net \in DispatchNet : \E env \in DispatchEnvs(net) :
        LET online_func ==
                [x \in ArgSet \X States |->
                    TheOne({[ret |-> l.ret,
                             st |-> [force |-> l.force, online |-> l.online,
                                     client |-> l.client],
                             attempts |-> l.attempts]
                            : l \in {get_ec2_price(x[1], x[2].client, x[2].force,
                                                   x[2].online, net, env)}})]
        IN  \E r \in {wrapper("get_ec2_price", nonlocal_offline_func, State,
                              net, online_func, args)} :
                Dispatch("get_ec2_price", args, r, r.cell,
                         LiveOutcome(online_func, args, net),
                         get_ec2_price_static(args))

GetEc2Price == GetEc2PriceOf(Args)

\* get_ec2_price called for any entry of the catalog in a session whose
\* monitor is forced offline
GetEc2PriceForcedOffline ==
    /\ _force_mode = "False"
    /\ GetEc2PriceOf(CatalogArgs)

\* The outcomes of the two callables of a direct fallback_to_static call,
\* and the arguments it is called with.
StubLive == {Return("live"), Raise("ConnectionError"), Raise("ValueError")}
StubStatic == {Return("static"), Raise("ValueError")}
StubArgs == {a \in Args : a.instance_type = "t3.micro" /\ a.region = "us-east-1"
                          /\ a.operating_system = "Linux"}

\* fallback_to_static(online_func, offline_func, *args) called directly with
\* two callables that read no state
FallbackToStatic ==
    \E args \in StubArgs, net \in DispatchNet, l \in StubLive, s \in StubStatic :
        LET online_func ==
                [x \in Args \X States |->
                    [ret |-> l, st |-> x[2], attempts |-> <<>>]]
        IN  \E r \in {fallback_to_static(State, net, online_func,
                                         [a \in Args |-> s], args)} :
                Dispatch("fallback_to_static", args, r, nonlocal_offline_func,
                         LiveOutcome(online_func, args, net), s)

(***************************************************************************)
(* Pricing calls.                                                          *)
(***************************************************************************)
\* largest count of instances, vCPUs, nodes or hosted zones a caller asks for
MaxQuantity == 2

NoEstimate == [called |-> FALSE, service |-> "", given |-> EmptyDict,
               params |-> EmptyDict, quote |-> EmptyDict, invoked |-> "none"]

NoLookup == [fn |-> "none", type |-> "", region |-> "",
             operating_system |-> "",
             result |-> [kind |-> "none", val |-> "None", price |-> 0]]

\* the service names estimate_price compares with
Services == {"EC2", "S3", "Lambda", "Fargate/ECS", "CloudWatch",
             "ElastiCache", "ECR", "OpenSearch", "Route 53"}

\* names it is called with that are none of them
OtherServices == {"RDS", "ec2", "Fargate", ""}

\* regions of the callers: two of the tables, one of no table
PriceRegions == {"us-east-1", "sa-east-1", "ap-south-1"}

\* The params dicts of the callers, by service.  A dict may leave keys out.
EC2Params ==
    [instance_type : {"t3.micro", "m5.large", "z9.huge"},
     region : PriceRegions, os_type : {"Linux", "Windows", "windows"},
     quantity : {1, MaxQuantity}, hours_per_day : {8, 24},
     days_per_month : {30}]
    \cup {EmptyDict, [os_type |-> "Windows"], [instance_type |-> "z9.huge"],
          [instance_type |-> "m5.large", region |-> "ap-south-1"]}

S3Params ==
    [storage_gb : {1, 100},
     storage_class : {"Standard", "Glacier Deep Archive", "Reduced"},
     region : PriceRegions]
    \cup {EmptyDict, [storage_class |-> "Reduced"]}

\* estimate_lambda's total stays below 0.2147 USD, the largest amount of
\* 32 bits in its unit
LambdaParams ==
    [requests : {0, 1}, memory : {128, 256}, avg_duration : {2},
     region : {"us-east-1", "ap-south-1"}]
    \cup {[requests |-> 0], [requests |-> 1, avg_duration |-> 4]}

FargateParams ==
    [vcpu : {1, MaxQuantity}, memory_gb : {2, 4}, hours_per_month : {730},
     region : PriceRegions]
    \cup {EmptyDict}

CloudWatchParams ==
    [ingestion_gb : {0, 10}, storage_gb : {10}, metrics : {10},
     alarms : {0, 5}, dashboards : {1}]
    \cup {EmptyDict}

ElastiCacheParams ==
    [node_type : {"cache.t3.micro", "cache.r5.large", "cache.z9.huge"},
     nodes : {1, MaxQuantity}, hours : {730}, region : PriceRegions]
    \cup {EmptyDict, [node_type |-> "cache.z9.huge"]}

ECRParams ==
    [storage_gb : {0, 10}, data_transfer_gb : {0, 50}] \cup {EmptyDict}

OpenSearchParams ==
    [instance_type : {"t3.small.search", "m5.large.search", "z9.huge.search"},
     instances : {1, MaxQuantity}, storage_gb : {10}, hours : {730},
     region : PriceRegions]
    \cup {EmptyDict, [instance_type |-> "z9.huge.search"]}

Route53Params ==
    [hosted_zones : {1, MaxQuantity}, queries_millions : {0, 1}]
    \cup {EmptyDict}

ParamsOf(service) ==
    CASE service = "EC2" -> EC2Params
      [] service = "S3" -> S3Params
      [] service = "Lambda" -> LambdaParams
      [] service = "Fargate/ECS" -> FargateParams
      [] service = "CloudWatch" -> CloudWatchParams
      [] service = "ElastiCache" -> ElastiCacheParams
      [] service = "ECR" -> ECRParams
      [] service = "OpenSearch" -> OpenSearchParams
      [] service = "Route 53" -> Route53Params
      [] OTHER -> {EmptyDict,
                   [instance_type |-> "t3.micro", region |-> "us-east-1"]}

\* the calls estimate_price(service, params) of the callers
EstimateInputs ==
    UNION {{[service |-> service, params |-> params]
            : params \in ParamsOf(service)}
           : service \in Services \cup OtherServices}

\* the calls that are made again
RepeatInputs ==
    {in \in EstimateInputs :
        /\ DOMAIN in.params # {}
        /\ Get(in.params, "region", "us-east-1") = "us-east-1"
        /\ Get(in.params, "instance_type", "t3.micro")
               \in {"t3.micro", "z9.huge.search"}
        /\ Get(in.params, "os_type", "Windows") = "Windows"
        /\ Get(in.params, "hours_per_day", 24) = 24
        /\ Get(in.params, "memory", 128) = 128
        /\ Get(in.params, "memory_gb", 2) = 2
        /\ Get(in.params, "storage_gb", 10) = 10
        /\ Get(in.params, "node_type", "") # "cache.r5.large"
        /\ Get(in.params, "alarms", 5) = 5}

\* estimate_price(service, params) with an input of Inputs.  With remember,
\* the call before this one may become the remembered one.
Estimate(Inputs, remember) ==
    \E in \in Inputs, keep \in {FALSE, remember} :
        \E r \in {estimate_price(in.service, in.params, price_tables)} :
            /\ estimate' = [called |-> TRUE, service |-> in.service,
                            given |-> in.params, params |-> r.params,
                            quote |-> r.quote, invoked |-> r.invoked]
            /\ price_tables' = r.tables
            /\ earlier' = IF keep THEN estimate ELSE earlier
            /\ lookup' = NoLookup
            /\ UNCHANGED monitor_vars
            /\ UNCHANGED other_vars

EstimatePrice == Estimate(EstimateInputs, FALSE)

EstimatePriceAgain == Estimate(RepeatInputs, TRUE)

\* the types and regions the lookups are called with: every type of the
\* catalog and one outside it; regions of the tables, a region of no
\* table, and a name that is no region
LookupInstanceTypes == INSTANCE_SPECS \cup {"z9.huge"}
LookupVolumeTypes == DOMAIN EBS_PRICES \cup {"io2", "zz9"}
LookupRegions == {"us-east-1", "ap-northeast-1", "sa-east-1", "xx-fake-1"}

\* the systems a price is looked up for: the two the function names, one
\* of them in another case, and one it does not name
LookupOperatingSystems == OperatingSystems \cup {"WINDOWS", "RHEL"}

\* a lookup of the static catalog by function fn
Lookup(fn, type, region, operating_system, result) ==
    /\ lookup' = [fn |-> fn, type |-> type, region |-> region,
                  operating_system |-> operating_system, result |-> result]
    /\ estimate' = NoEstimate
    /\ UNCHANGED <<price_tables, earlier>>
    /\ UNCHANGED monitor_vars
    /\ UNCHANGED other_vars

\* aws_resources.get_ec2_base_price(instance_type, region, operating_system)
GetEc2BasePrice ==
    \E instance_type \in LookupInstanceTypes, region \in LookupRegions,
       operating_system \in LookupOperatingSystems :
        Lookup("get_ec2_base_price", instance_type, region, operating_system,
               get_ec2_base_price(instance_type, region, operating_system))

\* aws_resources.get_ebs_price(volume_type, region)
GetEbsPrice ==
    \E volume_type \in LookupVolumeTypes, region \in LookupRegions :
        Lookup("get_ebs_price", volume_type, region, "",
               get_ebs_price(volume_type, region))

(***************************************************************************)
(* Calls of aws_services.py that contact the pricing API.                  *)
(***************************************************************************)
NoQuote == [called |-> FALSE, instance_type |-> <<>>, region |-> "",
            os |-> "", hours_per_month |-> 0,
            api |-> [answer |-> "none", PriceList |-> <<>>],
            result |-> [kind |-> "none", val |-> "None", rec |-> EmptyDict]]

\* The instance types get_ec2_price is asked about: families with a base
\* price and one without, with every size of size_multipliers, a size that
\* contains one ("12xlarge"), a size that contains none ("metal"), and a
\* name without a dot.
QuoteFamilies == {<<"t", "3">>, <<"m", "5">>, <<"z", "9">>}
QuoteSizes ==
    {size_multipliers[i].size_name : i \in DOMAIN size_multipliers}
        \cup {<<"1", "2", "x", "l", "a", "r", "g", "e">>,
              <<"m", "e", "t", "a", "l">>}
QuoteTypes ==
    {f \o <<".">> \o s : f \in QuoteFamilies, s \in QuoteSizes}
        \cup {<<"t", "3">>}
QuoteRegions == {"us-east-1", "ap-south-1"}
QuoteHours == {1, 730}

\* what the pricing API does when asked about instance_type: boto3 raises,
\* or get_products answers with no product or with one
QuoteApis(instance_type) ==
    [answer : ApiErrors, PriceList : {<<>>}]
        \cup [answer : {"PriceList"},
              PriceList : {<<>>, <<ApiProduct(Join(instance_type))>>}]

\* aws_services.get_ec2_price(instance_type, region, os, hours_per_month)
AwsServicesGetEc2Price ==
    \E instance_type \in QuoteTypes, region \in QuoteRegions,
       os \in OperatingSystems, hours_per_month \in QuoteHours :
        \E api \in QuoteApis(instance_type) :
            /\ ec2_quote' =
                   [called |-> TRUE, instance_type |-> instance_type,
                    region |-> region, os |-> os,
                    hours_per_month |-> hours_per_month, api |-> api,
                    result |-> aws_services_get_ec2_price(
                                   instance_type, region, os,
                                   hours_per_month, api)]
            /\ UNCHANGED <<offline_func_of, listing, resources, rendered,
                           threads>>
            /\ UNCHANGED monitor_vars
            /\ UNCHANGED pricing_vars

\* no wrapper has resolved its static operation yet
NoOfflineFuncs == [f \in {"get_instance_specs", "get_available_instance_types"}
                      |-> "None"]

\* A call of another wrapper of pricing_service, whose closure has its own
\* offline_func; live and static as in Dispatch.
DispatchOther(name, args, r, live, static) ==
    /\ _aws_online' = r.st.online
    /\ _force_mode' = r.st.force
    /\ _pricing_client' = r.st.client
    /\ offline_func_of' = [offline_func_of EXCEPT ![name] = r.cell]
    /\ ret' = r.ret
    /\ attempts' = r.attempts
    /\ op' = name
    /\ call' = [used |-> TRUE, args |-> args, answer |-> r.answer,
                live_args |-> r.live_args, static_args |-> r.static_args,
                live |-> live, static |-> static]
    /\ retry_limit' = DEFAULT_MAX_RETRIES
    /\ UNCHANGED <<nonlocal_offline_func, lastForce>>
    /\ UNCHANGED pricing_vars
    /\ UNCHANGED <<ec2_quote, listing, resources, rendered, threads>>

\* the EC2 API as a get_instance_specs call meets it: the live operation
\* runs only after is_aws_online() answered True
SpecsEnvsOf(net) ==
    IF is_aws_online(_force_mode, _aws_online, net).ret = Return("True")
    THEN SpecsEnvs
    ELSE {"ok"}

\* pricing_service.get_instance_specs(instance_type) as its callers see
\* it: the with_fallback wrapper
GetInstanceSpecs ==
    \E args \in SpecsArgs, net \in DispatchNet : \E env \in SpecsEnvsOf(net) :
        LET online_func ==
                [x \in SpecsArgs \X States |->
                    [ret |-> get_instance_specs(x[1], env), st |-> x[2],
                     attempts |-> <<>>]]
        IN  \E r \in {wrapper("get_instance_specs",
                              offline_func_of["get_instance_specs"], State,
                              net, online_func, args)} :
                DispatchOther("get_instance_specs", args, r,
                              LiveOutcome(online_func, args, net),
                              get_instance_specs_static(args))

\* most entries a session holds
MaxResources == 3

\* the button of the form of a service
AddButton(service) ==
    "Add " \o (IF service = "Fargate/ECS" THEN "Fargate" ELSE service)
        \o " to Calculator"

\* A click on "Add ... to Calculator": the run of the script prices the
\* form, appends the entry and draws the page from the list.
AddToCalculator ==
    \E w \in Forms :
        \E price_data \in {estimate_price(w.service, form_params(w),
                                          price_tables)} :
            /\ Len(resources) < MaxResources
            /\ resources' = append(resources, resource_of(w, price_data.quote))
            /\ rendered' = render(resources', AddButton(w.service))
            /\ price_tables' = price_data.tables
            /\ UNCHANGED <<estimate, earlier, lookup>>
            /\ UNCHANGED monitor_vars
            /\ UNCHANGED <<offline_func_of, ec2_quote, listing, threads>>

\* A click on "Clear All Resources", a button of the page of a list that
\* is not empty: the list is replaced by an empty one and the script runs
\* again.
ClearAllResources ==
    /\ resources # <<>>
    /\ resources' = <<>>
    /\ rendered' = render(resources', "Clear All Resources")
    /\ UNCHANGED pricing_vars
    /\ UNCHANGED monitor_vars
    /\ UNCHANGED <<offline_func_of, ec2_quote, listing, threads>>

\* no enumeration of aws_services made yet
NoApi == [answer |-> "none", PriceList |-> <<>>]
NoListing == [fn |-> "none", api |-> NoApi, result |-> <<>>]

\* the EC2 API as a get_available_instance_types call meets it: the live
\* operation runs only after is_aws_online() answered True
ListEnvsOf(net) ==
    IF is_aws_online(_force_mode, _aws_online, net).ret = Return("True")
    THEN ListEnvs
    ELSE {[answer |-> "pages", pages |-> << <<>> >>]}

\* pricing_service.get_available_instance_types(region) as its callers
\* see it: the with_fallback wrapper
GetAvailableInstanceTypes ==
    \E args \in ListArgs, net \in DispatchNet : \E env \in ListEnvsOf(net) :
        LET online_func ==
                [x \in ListArgs \X States |->
                    [ret |-> get_available_instance_types(x[1], env),
                     st |-> x[2], attempts |-> <<>>]]
        IN  \E r \in {wrapper("get_available_instance_types",
                              offline_func_of["get_available_instance_types"],
                              State, net, online_func, args)} :
                DispatchOther("get_available_instance_types", args, r,
                              LiveOutcome(online_func, args, net),
                              get_available_instance_types_static(args))

\* what the pricing API does in one enumeration: boto3 raises, or
\* get_products answers with no product or with some
ListApis ==
    [answer : ApiErrors, PriceList : {<<>>}]
        \cup [answer : {"PriceList"},
              PriceList : {<<>>, <<ApiProduct("t3.micro")>>,
                           <<ApiProduct("t3.micro"), ApiProduct("m5.large"),
                             ApiProduct("t3.micro")>>}]

\* an enumeration of aws_services or aws_static_resources
Enumerate(fn, api, result) ==
    /\ listing' = [fn |-> fn, api |-> api, result |-> result]
    /\ UNCHANGED monitor_vars
    /\ UNCHANGED pricing_vars
    /\ UNCHANGED <<offline_func_of, ec2_quote, resources, rendered, threads>>

\* aws_services.get_all_ec2_instance_types()
GetAllEc2InstanceTypes ==
    \E api \in ListApis :
        \E result \in {get_all_ec2_instance_types(api)} :
            Enumerate("get_all_ec2_instance_types", api, result)

\* aws_static_resources.get_ec2_instance_types()
GetEc2InstanceTypes ==
    \E result \in {get_ec2_instance_types} :
        Enumerate("get_ec2_instance_types", NoApi, result)

(***************************************************************************)
(* The monitor under concurrent callers.  The module holds _aws_online    *)
(* and _force_mode as plain globals and takes no lock, so the threads of   *)
(* the sessions interleave between any two accesses of a global.  pc is    *)
(* the statement a thread executes next, by its line in offline_mode.py.   *)
(***************************************************************************)
\* two sessions that call is_aws_online() and one that calls
\* force_offline_mode()
Callers == {"session_1", "session_2"}
Forcer == "session_3"

NoThreads ==
    [t \in Callers \cup {Forcer} |->
        [pc |-> "start", retry_count |-> 0, result |-> "None",
         probed |-> FALSE]]

\* thread t goes on to pc
Goto(t, pc) == threads' = [threads EXCEPT ![t].pc = pc]

\* thread t returns result from is_aws_online()
Returns(t, result) ==
    threads' = [threads EXCEPT ![t].pc = "done", ![t].result = result]

\* what a step of a thread leaves alone besides the two globals
ThreadFrame ==
    /\ UNCHANGED <<_pricing_client, nonlocal_offline_func, ret, attempts,
                   op, lastForce, retry_limit, call>>
    /\ UNCHANGED pricing_vars
    /\ UNCHANGED <<offline_func_of, ec2_quote, listing, resources, rendered>>

\* l.109 of is_aws_online: if _force_mode is not None
IsAwsOnlineTestForce(t) ==
    /\ threads[t].pc = "start"
    /\ Goto(t, IF _force_mode # "None" THEN "110" ELSE "113")
    /\ UNCHANGED <<_aws_online, _force_mode>>
    /\ ThreadFrame

\* l.110 and l.68: return _force_mode
ReturnForce(t) ==
    /\ threads[t].pc \in {"110", "68"}
    /\ Returns(t, _force_mode)
    /\ UNCHANGED <<_aws_online, _force_mode>>
    /\ ThreadFrame

\* l.113: if _aws_online is None, and l.114, the call
IsAwsOnlineTestFlag(t) ==
    /\ threads[t].pc = "113"
    /\ Goto(t, IF _aws_online = "None" THEN "66" ELSE "116")
    /\ UNCHANGED <<_aws_online, _force_mode>>
    /\ ThreadFrame

\* l.116: return _aws_online
ReturnFlag(t) ==
    /\ threads[t].pc = "116"
    /\ Returns(t, _aws_online)
    /\ UNCHANGED <<_aws_online, _force_mode>>
    /\ ThreadFrame

\* l.66 of check_aws_connection: if _force_mode is not None; else l.71,
\* retry_count = 0, and the probe begins
CheckTestForce(t) ==
    /\ threads[t].pc = "66"
    /\ threads' = IF _force_mode # "None"
                  THEN [threads EXCEPT ![t].pc = "67"]
                  ELSE [threads EXCEPT ![t].pc = "72", ![t].retry_count = 0,
                                       ![t].probed = TRUE]
    /\ UNCHANGED <<_aws_online, _force_mode>>
    /\ ThreadFrame

\* l.67: _aws_online = _force_mode
CheckCopyForce(t) ==
    /\ threads[t].pc = "67"
    /\ _aws_online' = _force_mode
    /\ Goto(t, "68")
    /\ UNCHANGED _force_mode
    /\ ThreadFrame

\* l.72: while retry_count <= max_retries, and l.74, the request sent
CheckRequest(t) ==
    /\ threads[t].pc = "72"
    /\ Goto(t, IF threads[t].retry_count <= DEFAULT_MAX_RETRIES
               THEN "74" ELSE "93")
    /\ UNCHANGED <<_aws_online, _force_mode>>
    /\ ThreadFrame

\* l.74-90: the request in flight ends, with status 200 or with a failure
\* that the loop counts
CheckResponse(t) ==
    /\ threads[t].pc = "74"
    /\ \E response \in {"200", "ConnectionError"} :
          threads' = IF response = "200"
                     THEN [threads EXCEPT ![t].pc = "76"]
                     ELSE [threads EXCEPT ![t].pc = "72",
                                          ![t].retry_count = @ + 1]
    /\ UNCHANGED <<_aws_online, _force_mode>>
    /\ ThreadFrame

\* l.76-78: _aws_online = True; return True
CheckWriteTrue(t) ==
    /\ threads[t].pc = "76"
    /\ _aws_online' = "True"
    /\ Returns(t, "True")
    /\ UNCHANGED _force_mode
    /\ ThreadFrame

\* l.93-95: _aws_online = False; return False
CheckWriteFalse(t) ==
    /\ threads[t].pc = "93"
    /\ _aws_online' = "False"
    /\ Returns(t, "False")
    /\ UNCHANGED _force_mode
    /\ ThreadFrame

\* l.136 of force_offline_mode: _force_mode = False
ForceOfflineWriteForce ==
    /\ threads[Forcer].pc = "start"
    /\ _force_mode' = "False"
    /\ Goto(Forcer, "137")
    /\ UNCHANGED _aws_online
    /\ ThreadFrame

\* l.137: _aws_online = False, and the return
ForceOfflineWriteFlag ==
    /\ threads[Forcer].pc = "137"
    /\ _aws_online' = "False"
    /\ Goto(Forcer, "done")
    /\ UNCHANGED _force_mode
    /\ ThreadFrame

Init ==
    /\ _aws_online = "None"
    /\ _force_mode = "None"
    /\ _pricing_client = "None"
    /\ nonlocal_offline_func = "None"
    /\ op = "none"
    /\ ret = NoRet
    /\ attempts = <<>>
    /\ call = NoCall
    /\ lastForce = "none"
    /\ retry_limit = DEFAULT_MAX_RETRIES
    /\ price_tables = PriceTables
    /\ estimate = NoEstimate
    /\ earlier = NoEstimate
    /\ lookup = NoLookup
    /\ offline_func_of = NoOfflineFuncs
    /\ ec2_quote = NoQuote
    /\ listing = NoListing
    /\ resources = <<>>
    /\ rendered = NoRender
    /\ threads = NoThreads

Next ==
    \/ CheckAwsConnection
    \/ IsAwsOnline
    \/ ForceOnlineMode
    \/ ForceOfflineMode
    \/ ResetConnectionState
    \/ GetEc2Price
    \/ FallbackToStatic

Spec == Init /\ [][Next]_vars

\* A session whose monitor is forced offline, resolving instance prices.
OfflineNext ==
    \/ ForceOfflineMode
    \/ GetEc2PriceForcedOffline

OfflineSpec == Init /\ [][OfflineNext]_vars

\* The pricing functions that contact nothing: the cost models behind
\* estimate_price and the lookups of the static catalog.
PriceNext ==
    \/ EstimatePrice
    \/ GetEc2BasePrice
    \/ GetEbsPrice

PriceSpec == Init /\ [][PriceNext]_vars

\* estimate_price calls, one of the earlier ones remembered.
RepeatNext == EstimatePriceAgain

RepeatSpec == Init /\ [][RepeatNext]_vars

\* aws_services.get_ec2_price calls.
QuoteNext == AwsServicesGetEc2Price

QuoteSpec == Init /\ [][QuoteNext]_vars

\* Resolutions of instance prices and instance specifications under a
\* monitor that is unverified, forced online or forced offline.
ResolveNext ==
    \/ ForceOnlineMode
    \/ ForceOfflineMode
    \/ GetEc2Price
    \/ GetInstanceSpecs

ResolveSpec == Init /\ [][ResolveNext]_vars

\* the calculator page of one session
SessionNext == AddToCalculator \/ ClearAllResources
SessionSpec == Init /\ [][SessionNext]_vars

\* the enumerations of the instance types under a monitor that is
\* unverified, verified or forced
ListNext ==
    \/ ForceOnlineMode
    \/ ForceOfflineMode
    \/ GetAvailableInstanceTypes
    \/ GetAllEc2InstanceTypes
    \/ GetEc2InstanceTypes
ListSpec == Init /\ [][ListNext]_vars

\* two concurrent is_aws_online() calls and a force_offline_mode() call on
\* an unverified monitor without override, interleaved statement by
\* statement
RaceNext ==
    \/ \E t \in Callers :
          \/ IsAwsOnlineTestForce(t)
          \/ ReturnForce(t)
          \/ IsAwsOnlineTestFlag(t)
          \/ ReturnFlag(t)
          \/ CheckTestForce(t)
          \/ CheckCopyForce(t)
          \/ CheckRequest(t)
          \/ CheckResponse(t)
          \/ CheckWriteTrue(t)
          \/ CheckWriteFalse(t)
    \/ ForceOfflineWriteForce
    \/ ForceOfflineWriteFlag
RaceSpec == Init /\ [][RaceNext]_vars

(***************************************************************************)
(* Properties.                                                             *)
(***************************************************************************)
Range(seq) == {seq[i] : i \in DOMAIN seq}
Last(seq) == seq[Len(seq)]

\* the outcome of a probe that issued the requests answered by atts: True
\* on a last answer 200, the error of a last answer the loop does not
\* catch, False otherwise
ProbeOutcome(atts) ==
    IF atts # <<>> /\ Last(atts) = "200" THEN Return("True")
    ELSE IF atts # <<>> /\ Last(atts) \notin {"503", "ConnectionError"}
    THEN Raise(Last(atts))
    ELSE Return("False")

\* C1: once force_offline_mode() has been called and neither
\* reset_connection_state() nor force_online_mode() since, every
\* is_aws_online() call returns False, also the one a dispatcher call
\* makes, whatever the endpoint answers and whatever calls came between.
C1_ForcedOfflineAnswersFalse ==
    lastForce = "offline" =>
        /\ op = "is_aws_online" => ret = Return("False")
        /\ call.used => call.answer = Return("False")

C1_Witness ==
    /\ lastForce = "offline"
    /\ op = "is_aws_online"
    /\ ret = Return("False")

\* C2: with the monitor forced online and a live operation that fails, one
\* dispatcher call (direct or through the with_fallback wrapper) invokes
\* the live operation exactly once, then the static operation exactly
\* once, both with the caller's arguments, and its outcome is the static
\* operation's.
C2_FallbackOnce ==
    (call.used /\ lastForce = "online" /\ call.live.kind = "raise") =>
        /\ call.live_args = <<call.args>>
        /\ call.static_args = <<call.args>>
        /\ ret = call.static

C2_Witness ==
    /\ call.used
    /\ lastForce = "online"
    /\ call.live.kind = "raise"
    /\ call.live_args = <<call.args>>
    /\ call.static_args = <<call.args>>
    /\ ret = Return("static")

\* C3: when is_aws_online() answers False at the start of a dispatcher
\* call, the call invokes the static operation with the caller's arguments
\* and never the live operation.
C3_OfflineSkipsLive ==
    (call.used /\ call.answer = Return("False")) =>
        /\ call.live_args = <<>>
        /\ call.static_args = <<call.args>>

C3_Witness ==
    /\ op = "get_ec2_price"
    /\ call.answer = Return("False")
    /\ _force_mode = "None"
    /\ call.live_args = <<>>
    /\ call.static_args = <<call.args>>

\* C4: when the monitor answers True and the live operation raises
\* (missing client, transport failure, empty or malformed response, price
\* not found), the dispatcher call ends with the static operation's
\* outcome: no error of the live operation reaches the caller.
C4_LiveErrorReplaced ==
    (call.used /\ call.answer = Return("True") /\ call.live.kind = "raise") =>
        /\ ret = call.static
        /\ call.static_args = <<call.args>>

C4_Witness ==
    /\ op = "get_ec2_price"
    /\ call.answer = Return("True")
    /\ call.live = Raise("StopIteration")
    /\ ret.kind = "return"
    /\ ret.rec.source = "static_data"

\* C5: an error of the static operation is the outcome of the dispatcher
\* call, unchanged, whether the static operation was reached because the
\* monitor answered False or after a failure of the live operation; the
\* static operation is invoked once and the live operation not again.
C5_StaticErrorPropagates ==
    (/\ call.used
     /\ call.static.kind = "raise"
     /\ \/ call.answer = Return("False")
        \/ call.answer = Return("True") /\ call.live.kind = "raise") =>
        /\ ret = call.static
        /\ call.static_args = <<call.args>>
        /\ call.live_args =
               IF call.answer = Return("True") THEN <<call.args>> ELSE <<>>

C5_Witness ==
    /\ op = "get_ec2_price"
    /\ call.answer = Return("True")
    /\ call.live = Raise("ConnectionError")
    /\ call.static = Raise("ValueError")
    /\ ret = Raise("ValueError")
    /\ call.static_args = <<call.args>>

\* C6: is_aws_online() returns the override when one is set; with none it
\* returns the cached flag, and issues requests only when the flag is
\* unverified.  When it returns with no override set the cached flag is
\* the value returned, and an is_aws_online() call that follows issues no
\* request and returns the same value.
C6_CachedAnswer ==
    [][/\ (op' = "is_aws_online" /\ _force_mode # "None") =>
              ret' = Return(_force_mode) /\ attempts' = <<>>
       /\ (op' = "is_aws_online" /\ _force_mode = "None"
              /\ _aws_online # "None") =>
              ret' = Return(_aws_online) /\ attempts' = <<>>
       /\ (op' = "is_aws_online" /\ _force_mode' = "None"
              /\ ret'.kind = "return") =>
              _aws_online' = ret'.val /\ _aws_online' # "None"
       /\ (op = "is_aws_online" /\ ret.kind = "return"
              /\ _force_mode = "None" /\ op' = "is_aws_online") =>
              attempts' = <<>> /\ ret' = ret
      ]_vars

C6_Witness ==
    /\ op = "is_aws_online"
    /\ _force_mode = "None"
    /\ lastForce = "reset"
    /\ ret = Return("True")
    /\ attempts = <<>>

\* C7: whenever the override is set, the cached flag has the override's
\* value.
C7_FlagFollowsOverride ==
    _force_mode # "None" => _aws_online = _force_mode

C7_Witness ==
    /\ op = "check_aws_connection"
    /\ _force_mode = "True"
    /\ _aws_online = "True"

\* C8: from a force_online_mode() or force_offline_mode() call until the
\* next reset_connection_state(), no call issues a reachability request,
\* and check_aws_connection() returns the forced value.
C8_OverrideStopsProbing ==
    lastForce \in {"online", "offline"} =>
        /\ attempts = <<>>
        /\ op = "check_aws_connection" =>
               ret = Return(IF lastForce = "online" THEN "True" ELSE "False")

C8_Witness ==
    /\ lastForce = "online"
    /\ op = "check_aws_connection"
    /\ ret = Return("True")
    /\ attempts = <<>>

\* C9: reset_connection_state() leaves the override and the cached flag
\* unverified whatever they were, and the is_aws_online() call that follows
\* it issues at least one request and ends with the outcome of that probe,
\* which is the cached flag when it returns.
C9_ResetThenFreshProbe ==
    [][/\ op' = "reset_connection_state" =>
              _force_mode' = "None" /\ _aws_online' = "None"
       /\ (op = "reset_connection_state" /\ op' = "is_aws_online") =>
              /\ attempts' # <<>>
              /\ ret' = ProbeOutcome(attempts')
              /\ ret'.kind = "return" => _aws_online' = ret'.val
      ]_vars

C9_Witness ==
    /\ op = "is_aws_online"
    /\ lastForce = "reset"
    /\ _force_mode = "None"
    /\ Len(attempts) = DEFAULT_MAX_RETRIES + 1
    /\ ret = Return("False")
    /\ _aws_online = "False"

\* C10 as stated: check_aws_connection() returns True if and only if one of
\* its attempts was answered 200, and on return the cached flag is the
\* result.
C10_Original ==
    (op = "check_aws_connection" /\ ret.kind = "return") =>
        /\ ret.val = "True" <=> "200" \in Range(attempts)
        /\ _aws_online = ret.val

\* C10, amended: with no override set, check_aws_connection() returns True
\* if and only if one of its attempts was answered 200; on every return
\* the cached flag is "True" when the result is True and "False"
\* otherwise, never unverified.
C10_ProbeResult ==
    (op = "check_aws_connection" /\ ret.kind = "return") =>
        /\ _force_mode = "None" =>
               (ret.val = "True" <=> "200" \in Range(attempts))
        /\ ret.val \in {"True", "False"}
        /\ _aws_online = ret.val

C10_Witness ==
    /\ op = "check_aws_connection"
    /\ _force_mode = "None"
    /\ ret = Return("True")
    /\ Len(attempts) = 2
    /\ attempts[1] = "503"
    /\ attempts[2] = "200"
    /\ _aws_online = "True"

\* C11: check_aws_connection() never raises for a failure of the
\* reachability request: when none of its attempts was answered 200,
\* whatever made them fail, it returns False and the cached flag is
\* offline.
C11_NeverRaises ==
    (op = "check_aws_connection" /\ attempts # <<>>
        /\ "200" \notin Range(attempts)) =>
        /\ ret = Return("False")
        /\ _aws_online = "False"

\* C12: check_aws_connection(max_retries = n) ends after at most n + 1
\* requests (none when n < 0), and a request answered 200 is its last; the
\* probe of every other call runs with the default n and ends after at
\* most 3.
C12_BoundedAttempts ==
    /\ Len(attempts) <= (IF retry_limit < 0 THEN 0 ELSE retry_limit + 1)
    /\ op # "check_aws_connection" => retry_limit = DEFAULT_MAX_RETRIES
    /\ \A i \in DOMAIN attempts : attempts[i] = "200" => i = Len(attempts)

C12_Witness ==
    /\ op = "check_aws_connection"
    /\ retry_limit = 1
    /\ attempts = <<"503", "ConnectionError">>
    /\ ret = Return("False")

\* the cost model the facade has for each service name
CostModelOf ==
    "EC2" :> "estimate_ec2" @@ "S3" :> "estimate_s3"
    @@ "Lambda" :> "estimate_lambda" @@ "Fargate/ECS" :> "estimate_fargate"
    @@ "CloudWatch" :> "estimate_cloudwatch"
    @@ "ElastiCache" :> "estimate_elasticache" @@ "ECR" :> "estimate_ecr"
    @@ "OpenSearch" :> "estimate_opensearch"
    @@ "Route 53" :> "estimate_route53"

\* the fields of a quote that are sub-costs
SubCosts(quote) ==
    DOMAIN quote \cap {"requests_cost", "vcpu_cost", "memory_cost",
                       "data_transfer_cost", "storage_cost", "query_cost"}

\* the sum of the fields F of quote
RECURSIVE SumFields(_, _)
SumFields(quote, F) ==
    IF F = {} THEN 0
    ELSE LET f == CHOOSE f \in F : TRUE
         IN  quote[f] + SumFields(quote, F \ {f})

\* C13: estimate_price(service, params) calls the cost model of the service
\* name when the name is one of the nine, and only that one; for every
\* other name it calls no cost model and returns
\* {"error": "Service not supported"}.
C13_Dispatch ==
    estimate.called =>
        IF estimate.service \in DOMAIN CostModelOf
        THEN /\ estimate.invoked = CostModelOf[estimate.service]
             /\ "total_price" \in DOMAIN estimate.quote
             /\ "error" \notin DOMAIN estimate.quote
        ELSE /\ estimate.invoked = "none"
             /\ estimate.quote = NotSupported

C13_Witness ==
    /\ estimate.called
    /\ estimate.service = "ec2"
    /\ estimate.given = [instance_type |-> "t3.micro", region |-> "us-east-1"]
    /\ estimate.quote = NotSupported
    /\ estimate.invoked = "none"

\* C14: with the monitor forced offline, get_ec2_price for Linux and an
\* (instance type, region) pair that has an entry in EC2_BASE_PRICES
\* returns a record whose price_per_hour is that entry, and neither a
\* reachability request nor the live operation is tried.
C14_TabulatedPrice ==
    (/\ op = "get_ec2_price"
     /\ lastForce = "offline"
     /\ call.args.operating_system = "Linux"
     /\ call.args.instance_type \in DOMAIN EC2_BASE_PRICES
     /\ call.args.region
            \in DOMAIN EC2_BASE_PRICES[call.args.instance_type] \ {"default"}) =>
        /\ ret.kind = "return"
        /\ ret.rec.price_per_hour =
               EC2_BASE_PRICES[call.args.instance_type][call.args.region]
        /\ ret.rec.instance_type = call.args.instance_type
        /\ ret.rec.region = call.args.region
        /\ call.live_args = <<>>
        /\ attempts = <<>>

C14_Witness ==
    /\ op = "get_ec2_price"
    /\ lastForce = "offline"
    /\ call.args = [instance_type |-> "t3.micro", region |-> "us-east-1",
                    operating_system |-> "Linux"]
    /\ ret.kind = "return"
    /\ ret.rec.price_per_hour = 104
    /\ call.live_args = <<>>

C16_WindowsMultiplier ==
    (estimate.called /\ estimate.service = "EC2") =>
        LET quote == estimate.quote
            given == estimate.given
            linux == Get(Get(EC2_PRICES, Get(given, "instance_type", "t3.micro"),
                             EmptyDict),
                         Get(given, "region", "us-east-1"), EC2_DEFAULT_PRICE)
        IN  /\ IF Get(given, "os_type", "Linux") = "Windows"
               THEN 10 * quote.unit_price = 13 * linux
               ELSE quote.unit_price = linux
            /\ quote.quantity = Get(given, "quantity", 1)
            /\ quote.monthly_hours =
                   Get(given, "hours_per_day", 24)
                       * Get(given, "days_per_month", 30)
            /\ quote.total_price =
                   quote.unit_price * quote.quantity * quote.monthly_hours
            /\ given = [instance_type |-> "t3.micro", region |-> "us-east-1",
                        os_type |-> "Windows", quantity |-> 1,
                        hours_per_day |-> 24, days_per_month |-> 30] =>
                   /\ quote.unit_price = 13520
                   /\ quote.monthly_hours = 720
                   /\ quote.total_price = 9734400

C16_Witness ==
    /\ estimate.called
    /\ estimate.service = "EC2"
    /\ estimate.given = [instance_type |-> "t3.micro", region |-> "us-east-1",
                         os_type |-> "Windows", quantity |-> 1,
                         hours_per_day |-> 24, days_per_month |-> 30]
    /\ estimate.quote.unit_price = 13520
    /\ estimate.quote.total_price = 9734400

\* C17: when the type key of the params is not a key of the model's price
\* table, estimate_ec2, estimate_s3, estimate_elasticache and
\* estimate_opensearch return a quote, not an error, whose unit price is
\* the model's default (0.0416, 0.023, 0.018, 0.036; times 1.3 for Windows,
\* times the region's multiplier for the last two), never zero, and whose
\* total_price is a number.
C17_UnknownKeyDefault ==
    estimate.called =>
        LET quote == estimate.quote
            given == estimate.given
            multiplier == Get(region_multipliers,
                              Get(given, "region", "us-east-1"), 100)
            unknown ==
                CASE estimate.service = "EC2" ->
                       Get(given, "instance_type", "t3.micro")
                           \notin DOMAIN EC2_PRICES
                  [] estimate.service = "S3" ->
                       Get(given, "storage_class", "Standard")
                           \notin DOMAIN S3_PRICES
                  [] estimate.service = "ElastiCache" ->
                       Get(given, "node_type", "cache.t3.micro")
                           \notin DOMAIN elasticache_node_prices
                  [] estimate.service = "OpenSearch" ->
                       Get(given, "instance_type", "t3.small.search")
                           \notin DOMAIN opensearch_instance_prices
                  [] OTHER -> FALSE
        IN  unknown =>
                /\ "error" \notin DOMAIN quote
                /\ quote.unit_price > 0
                /\ quote.total_price \in Nat
                /\ CASE estimate.service = "EC2" ->
                          IF Get(given, "os_type", "Linux") = "Windows"
                          THEN 10 * quote.unit_price = 13 * 41600
                          ELSE quote.unit_price = 41600
                     [] estimate.service = "S3" -> quote.unit_price = 23000
                     [] estimate.service = "ElastiCache" ->
                          100 * quote.unit_price = 18000 * multiplier
                     [] estimate.service = "OpenSearch" ->
                          100 * quote.unit_price = 36000 * multiplier

C17_Witness ==
    /\ estimate.called
    /\ estimate.service = "EC2"
    /\ Get(estimate.given, "instance_type", "t3.micro") = "z9.huge"
    /\ Get(estimate.given, "region", "") = "us-east-1"
    /\ Get(estimate.given, "os_type", "") = "Linux"
    /\ estimate.quote.unit_price = 41600
    /\ estimate.quote.total_price > 0

\* the price the claim C18 gives a known type in a region its map lacks:
\* the map's "default" entry, zero when it has none
OwnDefault(prices) == Get(prices, "default", 0)

\* the Linux price in a quote of estimate_ec2
LinuxUnitPrice(est) ==
    IF Get(est.given, "os_type", "Linux") = "Windows"
    THEN (est.quote.unit_price * 10) \div WINDOWS_MULTIPLIER
    ELSE est.quote.unit_price

\* the case of C18 in a lookup of the static catalog: the type is known
\* and its map has no entry for the region
LookupRegionAbsent ==
    \/ /\ lookup.fn = "get_ec2_base_price"
       /\ lookup.type \in INSTANCE_SPECS
       /\ lookup.region
              \notin DOMAIN Get(EC2_BASE_PRICES, lookup.type, EmptyDict)
    \/ /\ lookup.fn = "get_ebs_price"
       /\ lookup.type \in DOMAIN EBS_PRICES
       /\ lookup.region \notin DOMAIN EBS_PRICES[lookup.type]

\* the Linux price of the lookup and the map of its type
LookupLinuxPrice ==
    IF lookup.fn = "get_ec2_base_price"
           /\ Lower(lookup.operating_system) = "windows"
    THEN lookup.result.price - WINDOWS_PRICE_PREMIUM
    ELSE lookup.result.price

LookupMap ==
    IF lookup.fn = "get_ec2_base_price"
    THEN Get(EC2_BASE_PRICES, lookup.type, EmptyDict)
    ELSE Get(EBS_PRICES, lookup.type, EmptyDict)

\* the case of C18 in a cost model: the type is a key of the model's table
\* and the region is no key of the type's map
EstimateRegionAbsent ==
    \/ /\ estimate.service = "EC2"
       /\ Get(estimate.given, "instance_type", "t3.micro")
              \in DOMAIN EC2_PRICES
       /\ Get(estimate.given, "region", "us-east-1")
              \notin DOMAIN EC2_PRICES[Get(estimate.given, "instance_type",
                                           "t3.micro")]
    \/ /\ estimate.service = "S3"
       /\ Get(estimate.given, "storage_class", "Standard")
              \in DOMAIN S3_PRICES
       /\ Get(estimate.given, "region", "us-east-1")
              \notin DOMAIN S3_PRICES[Get(estimate.given, "storage_class",
                                          "Standard")]

EstimateMap ==
    IF estimate.service = "EC2"
    THEN EC2_PRICES[Get(estimate.given, "instance_type", "t3.micro")]
    ELSE S3_PRICES[Get(estimate.given, "storage_class", "Standard")]

C19_Stateless ==
    /\ price_tables = PriceTables
    /\ estimate.called => estimate.params = estimate.given
    /\ (/\ estimate.called
        /\ earlier.called
        /\ earlier.service = estimate.service
        /\ earlier.given = estimate.given) =>
           estimate.quote = earlier.quote

C19_Witness ==
    /\ estimate.called
    /\ earlier.called
    /\ estimate.service = "EC2"
    /\ earlier.service = "EC2"
    /\ earlier.given = estimate.given
    /\ Get(estimate.given, "os_type", "Linux") = "Windows"
    /\ Get(estimate.given, "instance_type", "") = "t3.micro"
    /\ estimate.quote = earlier.quote
    /\ estimate.quote.unit_price = 13520

\* C20: every record get_ec2_price returns has a source field that names
\* where the price came from: "api" when the live operation answered,
\* "static_data" when the static table did.
C20_SourceTagged ==
    (op = "get_ec2_price" /\ ret.kind = "return") =>
        /\ ret.rec.source \in {"api", "static_data", "estimated_data"}
        /\ ret = call.live => ret.rec.source = "api"
        /\ ret = call.static => ret.rec.source = "static_data"

\* the key of the last get_ec2_price call in EC2_PRICE_DATA
QuoteKey ==
    ec2_quote.region \o ":" \o Join(ec2_quote.instance_type) \o ":"
        \o ec2_quote.os

\* C21: when the live pricing request of aws_services.get_ec2_price cannot
\* be made (boto3 raises for missing credentials or a network error), the
\* record it returns comes from static data: its source is "static_data"
\* with price_per_hour = EC2_PRICE_DATA[region:type:os] when that key
\* exists and "estimated_data" otherwise; and a record tagged "aws_api" is
\* returned only when the live API answered.
C21_StaticWhenUnreachable ==
    ec2_quote.called /\ ec2_quote.result.kind = "return" =>
        /\ ec2_quote.api.answer \in ApiErrors =>
               IF QuoteKey \in DOMAIN EC2_PRICE_DATA
               THEN /\ ec2_quote.result.rec.source = "static_data"
                    /\ ec2_quote.result.rec.price_per_hour
                           = EC2_PRICE_DATA[QuoteKey]
               ELSE ec2_quote.result.rec.source = "estimated_data"
        /\ ec2_quote.result.rec.source = "aws_api" =>
               ec2_quote.api.answer = "PriceList"

\* the multiplier that size_multipliers gives to the size itself
OwnSizeValue(instance_size) ==
    TheOne({size_multipliers[i].size_value : i \in
               {j \in DOMAIN size_multipliers :
                    size_multipliers[j].size_name = instance_size}})

\* C30: in the estimate branch of aws_services.get_ec2_price (the key
\* region:type:os is not in EC2_PRICE_DATA), for an instance type whose
\* size part is exactly a key of size_multipliers, price_per_hour is the
\* base price of the family (0.05 for an unknown family) times the
\* multiplier of that key, and monthly_cost is price_per_hour times
\* hours_per_month.
C30_EstimateBySize ==
    /\ ec2_quote.called
    /\ ec2_quote.result.kind = "return"
    /\ ec2_quote.result.rec.source = "estimated_data"
    /\ Len(split(ec2_quote.instance_type, ".")) >= 2
    /\ \E i \in DOMAIN size_multipliers :
           size_multipliers[i].size_name
               = split(ec2_quote.instance_type, ".")[2]
    => LET parts == split(ec2_quote.instance_type, ".")
           base_price == Get(base_prices, Join(parts[1]),
                             UNKNOWN_FAMILY_PRICE)
       IN  /\ ec2_quote.result.rec.price_per_hour
                  = (base_price * OwnSizeValue(parts[2])) \div 4
           /\ ec2_quote.result.rec.monthly_cost
                  = ec2_quote.result.rec.price_per_hour
                        * ec2_quote.hours_per_month

\* the last call took the static path: the static operation ran in it
StaticPath == call.used /\ call.static_args # <<>>

\* C22: on the static path (the monitor is offline, or the live operation
\* failed), an instance-price resolution whose instance type is not in
\* INSTANCE_SPECS or whose region is not in AWS_REGIONS ends with a
\* ValueError at the caller, and so does get_instance_specs with an unknown
\* instance type: no record is returned for invalid input.
C22_InvalidInputRaises ==
    /\ op = "get_ec2_price" /\ StaticPath
       /\ (call.args.instance_type \notin INSTANCE_SPECS
           \/ call.args.region \notin AWS_REGIONS)
       => ret = Raise("ValueError")
    /\ op = "get_instance_specs" /\ StaticPath
       /\ call.args.instance_type \notin INSTANCE_SPECS
       => ret = Raise("ValueError")

\* a resolution for a known type in an unknown region whose live operation
\* failed, and that ended with the ValueError of the static operation
C22_Witness ==
    /\ op = "get_ec2_price"
    /\ call.live_args # <<>>
    /\ call.static_args # <<>>
    /\ call.args.instance_type \in INSTANCE_SPECS
    /\ call.args.region \notin AWS_REGIONS
    /\ ret = Raise("ValueError")

\* the Linux price that the model of the last call has for its type and
\* region: of estimate_ec2 in EC2_PRICES, of get_ec2_base_price in
\* EC2_BASE_PRICES
EstimateBase ==
    Get(Get(EC2_PRICES, Get(estimate.given, "instance_type", "t3.micro"),
            EmptyDict),
        Get(estimate.given, "region", "us-east-1"), EC2_DEFAULT_PRICE)
LookupBase ==
    Get(Get(EC2_BASE_PRICES, lookup.type, EmptyDict), lookup.region,
        Get(Get(EC2_BASE_PRICES, lookup.type, EmptyDict), "default", 0))

\* C23: the two Windows premiums are kept apart.  estimate_ec2 multiplies
\* the Linux unit price by 1.3 when os_type is exactly "Windows" and adds
\* nothing; get_ec2_base_price adds the flat premium 0.058 to the Linux
\* price when the operating system is Windows in any case of the letters
\* and multiplies nothing; for Linux, and for every other name, each
\* returns its base price unmodified.
C23_SeparatePremiums ==
    /\ (estimate.called /\ estimate.service = "EC2") =>
           IF Get(estimate.given, "os_type", "Linux") = "Windows"
           THEN /\ 10 * estimate.quote.unit_price
                       = WINDOWS_MULTIPLIER * EstimateBase
                \* the flat premium, in the units of the cost models
                /\ estimate.quote.unit_price
                       # EstimateBase + 100 * WINDOWS_PRICE_PREMIUM
           ELSE estimate.quote.unit_price = EstimateBase
    /\ (lookup.fn = "get_ec2_base_price" /\ lookup.result.kind = "return") =>
           IF lookup.operating_system \in {"Windows", "windows", "WINDOWS"}
           THEN /\ lookup.result.price = LookupBase + WINDOWS_PRICE_PREMIUM
                /\ 10 * lookup.result.price # WINDOWS_MULTIPLIER * LookupBase
           ELSE lookup.result.price = LookupBase

\* a catalog lookup for "WINDOWS" that got the flat premium
C23_Witness ==
    /\ lookup.fn = "get_ec2_base_price"
    /\ lookup.operating_system = "WINDOWS"
    /\ lookup.type = "m5.large"
    /\ lookup.region = "us-east-1"
    /\ lookup.result.kind = "return"
    /\ lookup.result.price = EC2_BASE_PRICES["m5.large"]["us-east-1"]
                                 + WINDOWS_PRICE_PREMIUM

\* the buttons that add an entry
AddButtons == {AddButton(service) : service \in Services}

\* C24: every step of the session leaves the resource list as it is,
\* or is a click on an "Add ... to Calculator" button that puts exactly
\* one entry after the entries it had, which stay as they were and in
\* their order, or is the click on "Clear All Resources" that empties it;
\* no step removes or changes a single entry.
C24_AppendOnly ==
    [][\/ resources' = resources
       \/ /\ rendered'.clicked \in AddButtons
          /\ Len(resources') = Len(resources) + 1
          /\ SubSeq(resources', 1, Len(resources)) = resources
       \/ /\ rendered'.clicked = "Clear All Resources"
          /\ resources # <<>>
          /\ resources' = <<>>]_vars

\* three different entries were added one after the other
C24_Witness ==
    /\ Len(resources) = MaxResources
    /\ rendered.clicked = "Add Route 53 to Calculator"
    /\ resources[1].service.s = "EC2"
    /\ resources[2].service.s = "Lambda"
    /\ resources[3].service.s = "Route 53"

\* the totals of the entries added up exactly: micro-USD and the
\* ten-thousandths of a micro-USD apart
RECURSIVE MicroOf(_)
MicroOf(rows) ==
    IF rows = <<>> THEN 0
    ELSE rows[1].total_price.micro + MicroOf(Tail(rows))

RECURSIVE FracOf(_)
FracOf(rows) ==
    IF rows = <<>> THEN 0
    ELSE rows[1].total_price.frac + FracOf(Tail(rows))

IsTotalOf(x, rows) ==
    /\ x.type = "float"
    /\ x.micro = MicroOf(rows) + FracOf(rows) \div 10000
    /\ x.frac = FracOf(rows) % 10000

\* the entries a form can give with the price tables as they are
FormEntries ==
    {resource_of(w, estimate_price(w.service, form_params(w),
                                   price_tables).quote) : w \in Forms}

\* C25: whenever the page shows a resource list, the total it computes
\* and the total_cost of its export document are both the sum of
\* total_price over exactly the entries of the list, the heading shows
\* that sum to the nearest cent, and the entries of the list hold the
\* totals as they were computed, not as the table shows them.
C25_TotalIsSum ==
    /\ rendered.drawn <=> resources # <<>>
    /\ rendered.drawn =>
          /\ IsTotalOf(rendered.total_cost, resources)
          /\ IsTotalOf(json_loads(rendered.export_json).total_cost,
                       resources)
          /\ 2 * (rendered.total_cost.micro - rendered.total_shown * 10000)
                 \in -10000 .. 10000
          /\ \A i \in DOMAIN resources : resources[i] \in FormEntries

\* the cents of the totals the table shows, added up
RECURSIVE ShownCents(_)
ShownCents(table) ==
    IF table = <<>> THEN 0 ELSE table[1].TotalPrice + ShownCents(Tail(table))

\* a list whose total is not the sum of the totals the table shows: an
\* instance with Windows, 9.7344, and a function, 0.204166675
C25_Witness ==
    /\ rendered.drawn
    /\ Len(resources) = 2
    /\ resources[1].total_price = PyFloat(9734400, 0)
    /\ resources[2].total_price = PyFloat(204166, 6750)
    /\ rendered.total_shown = 994
    /\ ShownCents(rendered.table) = 993

StrictlyAscending(list) ==
    \A i \in 1..(Len(list) - 1) : str_lt(list[i], list[i + 1])

ListReturned == op = "get_available_instance_types" /\ ret.kind = "return"

Probes == {t \in Callers : threads[t].probed}

\* the callers that have returned
Returned == {t \in Callers : threads[t].pc = "done"}

\* at most one probe is launched
OneProbe == Cardinality(Probes) <= 1

\* the callers that have returned got the same answer
SameResult ==
    \A t, u \in Returned : threads[t].result = threads[u].result

\* once force_offline_mode() has returned, flag and override say offline
ForceKept ==
    threads[Forcer].pc = "done" =>
        _force_mode = "False" /\ _aws_online = "False"

\* C28: of two concurrent is_aws_online() calls on an unverified monitor
\* without override at most one launches a probe and both return the
\* same answer, and a force_offline_mode() that has completed is not
\* overwritten by the result of a probe that was in flight.
C28_SerializedMonitor == OneProbe /\ SameResult /\ ForceKept

\* the live operation ran, returned, and its outcome is the call's
LiveProduced ==
    /\ Len(call.live_args) = 1
    /\ call.static_args = <<>>
    /\ ret = call.live

\* the static operation ran and its outcome is the call's
StaticProduced ==
    /\ Len(call.static_args) = 1
    /\ ret = call.static

\* online and a live operation that returns: the live result, unchanged,
\* and no static call
LiveUnchanged ==
    (/\ call.used
     /\ call.answer = Return("True")
     /\ call.live.kind = "return") => LiveProduced

\* C29: in a dispatcher call made while the monitor reports online and
\* whose live operation returns normally, the live result is returned
\* unchanged and the static operation is not called; and in every
\* dispatcher call exactly one of the two operations produces the outcome.
C29_ExactlyOneProduces ==
    /\ LiveUnchanged
    /\ call.used => (LiveProduced \/ StaticProduced)

====
